---- MODULE Spec2Model ----
(***************************************************************************)
(* Model of the BGG-complex code: the Bruhat graph on a Weyl group         *)
(* (BGGComplex), the hash-addressed composite modules                      *)
(* (FastLieAlgebraCompositeModule) and the assembly of the differential    *)
(* (BGGCohomology).                                                        *)
(***************************************************************************)
EXTENDS Integers, Sequences, FiniteSets, TLC

(***************************************************************************)
(* Bounds                                                                  *)
(***************************************************************************)
\* Largest dihedral parameter m of the Weyl groups W = I2(m) that are built
\* (m = 1: A1, m = 2: A1xA1, m = 3: A2).
MaxM == 3
\* Cap on the number of rounds of the enumeration loop.
MaxRounds == 12

(***************************************************************************)
(* Generic helpers on sequences                                            *)
(***************************************************************************)
Range(s) == {s[i] : i \in DOMAIN s}

RECURSIVE Perms(_)
\* All orders in which the elements of a finite set can be iterated.
Perms(S) == IF S = {} THEN {<<>>}
            ELSE UNION {{<<x>> \o p : p \in Perms(S \ {x})} : x \in S}

RECURSIVE Concat(_)
\* itertools.chain.from_iterable on a sequence of sequences.
Concat(ss) == IF ss = <<>> THEN <<>> ELSE Head(ss) \o Concat(Tail(ss))

(***************************************************************************)
(* The Weyl group (collaborator): W = I2(m), elements <<r, f>> = rot^r     *)
(* flip^f.                                                                 *)
(***************************************************************************)
One == <<0, 0>>

Mult(a, b, m) == <<(a[1] + (IF a[2] = 0 THEN b[1] ELSE m - b[1])) % m, (a[2] + b[2]) % 2>>

Elements(m) == IF m = 1 THEN {<<0, 0>>, <<0, 1>>} ELSE (0..(m - 1)) \X {0, 1}

Order(m) == Cardinality(Elements(m))

\* self.S : the simple reflections, in the order of W.index_set()
SimpleReflections(m) == IF m = 1 THEN << <<0, 1>> >> ELSE << <<0, 1>>, <<1, 1>> >>

\* self.T : all reflections
Reflections(m) == IF m = 1 THEN << <<0, 1>> >> ELSE [i \in 1..m |-> <<i - 1, 1>>]

\* W.index_set() rendered by str(): the labels of the simple reflections.
\* Labels of two characters occur from rank 10 on, or after relabelling.
IndexSets(m) == IF m = 1 THEN {<< "1" >>} ELSE {<< "1", "2" >>, << "1", "11" >>}

RECURSIVE Ball(_, _)
\* Elements that are products of at most k simple reflections.
Ball(m, k) == IF k = 0 THEN {One}
              ELSE LET B == Ball(m, k - 1)
                   IN  B \cup {Mult(SimpleReflections(m)[i], x, m) :
                                  i \in DOMAIN SimpleReflections(m), x \in B}

\* Coxeter length: the least number of simple reflections whose product is g.
CoxeterLength(g, m) == CHOOSE k \in 0..(2 * m) :
                          /\ g \in Ball(m, k)
                          /\ \A j \in 0..(k - 1) : g \notin Ball(m, j)

(***************************************************************************)
(* State                                                                   *)
(***************************************************************************)
VARIABLES
    \* --- BGGComplex ---
    pc,             \* position of the construction of the BGGComplex object
    m,              \* the Weyl group W = I2(m)
    index_set,      \* labels of the simple reflections
    WeylDic,        \* word (string) -> group element
    word_length,    \* loop counter of _compute_weyl_dictionary
    overwritten,    \* history: keys whose value was replaced by another element
    WeylDicReverse, \* group element -> word
    arrows,         \* list of pairs (w, w')
    cycles,         \* list of tuples (a, b, c, b', a)
    signs,          \* arrow -> +1 / -1
    \* --- FastLieAlgebraCompositeModule ---
    mpc,            \* position of the caller of the module
    components,     \* the direct-summand descriptors of the module
    int_bits,       \* width of the platform integer numpy accumulates sums in
    pbw_elt,        \* the PBW element last handed to set_pbw_action_matrix
    action_matrix,  \* component name -> cached action of pbw_elt
    action_table,   \* component name -> the keys (i, j) stored in its action table
    weight,         \* the weight last handed to the hashing of a weight space
    hashes,         \* get_hash of each weight component of that weight
    weight_comp,    \* the weight component last handed to compute_pbw_action
    emitted,        \* the per-column contributions of that call, before merging
    pbw_action,     \* the result of that call
    \* --- BGGCohomology ---
    dpc,            \* position of the caller of BGGCohomology
    cur_mu,         \* the weight last handed to BGGCohomology
    cur_i,          \* the degree i last handed to BGGCohomology
    last_d_i,       \* result of compute_differential(mu, i)
    last_d_i_minus_1, \* result of compute_differential(mu, i - 1)
    cohom,          \* result of cohomology_component(mu, i)
    cohomology,     \* result of cohomology(i): the (dominant weight, multiplicity) by multiplicity
    \* --- FastModuleFactory ---
    fpc,            \* position of the caller of the factory
    build_args,     \* the arguments of the last call of build_component
    build_result,   \* what that call gave: an error or a component
    \* --- two callers of one BGGCohomology ---
    runs,           \* per caller: its call of compute_differential, the steps left, the output
    \* --- the parabolic bases of a FastModuleFactory ---
    cartan_type,    \* the type of the factory's Lie algebra
    basis_call,     \* the last call: which of parabolic_p/n/u_basis, and its subset
    basis_result    \* the list that call returned

gvars == <<pc, m, index_set, WeylDic, word_length, overwritten, WeylDicReverse,
           arrows, cycles, signs>>

mvars == <<mpc, components, int_bits, pbw_elt, action_matrix, action_table, weight, hashes,
           weight_comp, emitted, pbw_action>>

dvars == <<dpc, cur_mu, cur_i, last_d_i, last_d_i_minus_1, cohom, cohomology>>

fvars == <<fpc, build_args, build_result>>

pvars == <<runs>>

bvars == <<cartan_type, basis_call, basis_result>>

vars == <<gvars, mvars, dvars, fvars, pvars, bvars>>

\* The factory part of the state while build_component is not called.
FactoryIdle ==
    /\ fpc = "idle"
    /\ build_args = <<>>
    /\ build_result = <<>>

\* No caller has started a run.
RunsIdle == runs = <<>>

\* No parabolic basis was asked for; the Lie algebra is the one of the module.
BasisIdle ==
    /\ cartan_type = "A1xA1"
    /\ basis_call = <<>>
    /\ basis_result = <<>>

\* The BGGCohomology part of the state while there is no such object.
DiffIdle ==
    /\ dpc = "idle"
    /\ cur_mu = <<>>
    /\ cur_i = 0
    /\ last_d_i = <<>>
    /\ last_d_i_minus_1 = <<>>
    /\ cohom = 0
    /\ cohomology = <<>>

\* The module part of the state while only the graph is built.
ModuleIdle ==
    /\ mpc = "idle"
    /\ components = <<>>
    /\ int_bits = 64
    /\ pbw_elt = <<>>
    /\ action_matrix = <<>>
    /\ action_table = <<>>
    /\ weight = <<>>
    /\ hashes = <<>>
    /\ weight_comp = <<>>
    /\ emitted = {}
    /\ pbw_action = {}

Keys == DOMAIN WeylDic
Values == {WeylDic[k] : k \in Keys}

(***************************************************************************)
(* BGGComplex.__init__ / _compute_weyl_dictionary                          *)
(***************************************************************************)
GraphInit ==
    /\ m \in 1..MaxM
    /\ index_set \in IndexSets(m)
    /\ pc = "enumerate"
    /\ WeylDic = [k \in {""} |-> One]
    /\ word_length = 0
    /\ overwritten = {}
    /\ WeylDicReverse = <<>>
    /\ arrows = <<>>
    /\ cycles = <<>>
    /\ signs = <<>>
    /\ ModuleIdle
    /\ DiffIdle
    /\ FactoryIdle
    /\ RunsIdle
    /\ BasisIdle

\* One execution of the body of the inner loop: (dic, ov) after testing
\* S[s] * WeylDic[w]
AddWord(st, w, i) ==
    LET dic == st[1]
        test_element == Mult(SimpleReflections(m)[i], dic[w], m)
        key == index_set[i] \o w
    IN  IF test_element \in {dic[k] : k \in DOMAIN dic}
        THEN st
        ELSE << (key :> test_element) @@ dic,
                IF key \in DOMAIN dic THEN st[2] \cup {key} ELSE st[2] >>

RECURSIVE ForGenerators(_, _, _)
ForGenerators(st, w, i) ==
    IF i > Len(index_set) THEN st
    ELSE ForGenerators(AddWord(st, w, i), w, i + 1)

RECURSIVE ForColumn(_, _)
ForColumn(st, column) ==
    IF column = <<>> THEN st
    ELSE ForColumn(ForGenerators(st, Head(column), 1), Tail(column))

\* One round of the while loop; the column is iterated in dictionary order,
\* which is unspecified.
WeylRound ==
    /\ pc = "enumerate"
    /\ Cardinality(Keys) < Order(m)
    /\ word_length < MaxRounds
    /\ \E BGGColumn \in Perms({s \in Keys : Len(s) = word_length}) :
          LET st == ForColumn(<<WeylDic, overwritten>>, BGGColumn)
          IN  /\ WeylDic' = st[1]
              /\ overwritten' = st[2]
    /\ word_length' = word_length + 1
    /\ UNCHANGED <<bvars, pc, m, index_set, WeylDicReverse, arrows, cycles, signs, mvars, dvars, fvars, pvars>>

\* The loop exits; WeylDicReverse is built from the items.
WeylFinish ==
    /\ pc = "enumerate"
    /\ Cardinality(Keys) >= Order(m)
    /\ WeylDicReverse' = [v \in Values |-> CHOOSE k \in Keys : WeylDic[k] = v]
    /\ pc' = "dictionary"
    /\ UNCHANGED <<bvars, m, index_set, WeylDic, word_length, overwritten, arrows, cycles, signs, mvars, dvars, fvars, pvars>>

(***************************************************************************)
(* BGGComplex._construct_BGG_graph                                         *)
(***************************************************************************)
\* The arrows recorded for one source word w, in the order of self.T
ArrowsFrom(w) ==
    LET T == Reflections(m)
        product_word(i) == WeylDicReverse[Mult(T[i], WeylDic[w], m)]
    IN  Concat([i \in DOMAIN T |->
                   IF Len(product_word(i)) = Len(w) + 1
                   THEN << <<w, product_word(i)>> >> ELSE <<>>])

\* The keys are iterated in dictionary order, which is unspecified.
ConstructBGGGraph ==
    /\ pc = "dictionary"
    /\ \E ws \in Perms(Keys) :
          arrows' = Concat([i \in DOMAIN ws |-> ArrowsFrom(ws[i])])
    /\ pc' = "graph"
    /\ UNCHANGED <<bvars, m, index_set, WeylDic, word_length, overwritten, WeylDicReverse,
                   cycles, signs, mvars, dvars, fvars, pvars>>

(***************************************************************************)
(* BGGComplex.find_cycles                                                  *)
(***************************************************************************)
\* {k: map(other end, v) for k, v in groupby(arrows, key)}: groupby starts
\* a new group whenever the key differs from the key of the previous arrow,
\* and a later group replaces an earlier one under the same dictionary key.
\* p is the position of the key in the arrow (1: source, 2: target); d is
\* the dictionary after the first i - 1 arrows.
RECURSIVE GroupByDict(_, _, _, _)
GroupByDict(arr, p, i, d) ==
    IF i > Len(arr) THEN d
    ELSE LET k == arr[i][p]
             v == arr[i][3 - p]
             group == IF i > 1 /\ arr[i - 1][p] = k THEN Append(d[k], v) ELSE <<v>>
         IN  GroupByDict(arr, p, i + 1, (k :> group) @@ d)

\* max(self.WeylDic.keys(), key=len): some key of maximal length
LongestKeys == {k \in Keys : \A j \in Keys : Len(j) <= Len(k)}

\* outgoing, with outgoing[longest] = []
Outgoing(arr, longest) == (longest :> <<>>) @@ GroupByDict(arr, 1, 1, <<>>)

\* incoming, with incoming[''] = []
Incoming(arr) == ("" :> <<>>) @@ GroupByDict(arr, 2, 1, <<>>)

\* [a + (v,) for v in vs], or with the filter "if v != a[1]" when
\* other_midpoint is set, for one path a
ExtendPath(a, vs, other_midpoint) ==
    Concat([j \in DOMAIN vs |->
              IF other_midpoint /\ vs[j] = a[2] THEN <<>> ELSE << Append(a, vs[j]) >>])

\* chain.from_iterable of the extensions of all paths by d[a[-1]]
Extend(paths, d, other_midpoint) ==
    Concat([i \in DOMAIN paths |->
              ExtendPath(paths[i], d[paths[i][Len(paths[i])]], other_midpoint)])

\* [a + (a[0],) for a in paths if a[0] in incoming[a[-1]]]
CloseCycles(paths, incoming) ==
    Concat([i \in DOMAIN paths |->
              IF paths[i][1] \in Range(incoming[paths[i][4]])
              THEN << Append(paths[i], paths[i][1]) >> ELSE <<>>])

\* every dictionary lookup d[a[-1]] finds its key
LookupsDefined(paths, d) == \A i \in DOMAIN paths : paths[i][Len(paths[i])] \in DOMAIN d

KeyError == [raised |-> TRUE, cycles |-> <<>>]

CyclesFromPaths3(paths3, incoming) ==
    IF LookupsDefined(paths3, incoming)
    THEN [raised |-> FALSE, cycles |-> CloseCycles(paths3, incoming)]
    ELSE KeyError

CyclesFromPaths2(paths2, incoming) ==
    IF LookupsDefined(paths2, incoming)
    THEN CyclesFromPaths3(Extend(paths2, incoming, TRUE), incoming)
    ELSE KeyError

CyclesFromArrows(arr, outgoing, incoming) ==
    IF LookupsDefined(arr, outgoing)
    THEN CyclesFromPaths2(Extend(arr, outgoing, FALSE), incoming)
    ELSE KeyError

FindCyclesResult(arr, longest) == CyclesFromArrows(arr, Outgoing(arr, longest), Incoming(arr))

FindCycles ==
    /\ pc = "graph"
    /\ \E longest \in LongestKeys :
         \E res \in {FindCyclesResult(arrows, longest)} :
             /\ cycles' = res.cycles
             /\ pc' = IF res.raised THEN "KeyError" ELSE "cycles"
    /\ UNCHANGED <<bvars, m, index_set, WeylDic, word_length, overwritten, WeylDicReverse,
                   arrows, signs, mvars, dvars, fvars, pvars>>

(***************************************************************************)
(* BGG.compute_signs                                                       *)
(***************************************************************************)
\* The signs after one cycle (a, b, c, b', a) has been treated: the arrows
\* at the minimal element a get +1 unless they have a sign already, the
\* arrows into c that have no sign yet are set so that the product around
\* the cycle is -1; arrows that already have a sign keep it.
SignCycle(sg, cyc) ==
    LET e1 == <<cyc[1], cyc[2]>>
        e4 == <<cyc[1], cyc[4]>>
        e2 == <<cyc[2], cyc[3]>>
        e3 == <<cyc[4], cyc[3]>>
        s1 == sg @@ (e1 :> 1) @@ (e4 :> 1)
        bottom == s1[e1] * s1[e4]
        s2 == IF e2 \in DOMAIN s1 THEN s1
              ELSE IF e3 \in DOMAIN s1 THEN s1 @@ (e2 :> (0 - bottom) * s1[e3])
              ELSE s1 @@ (e2 :> 1)
    IN  IF e3 \in DOMAIN s2 THEN s2
        ELSE s2 @@ (e3 :> (0 - bottom) * s2[e2])

RECURSIVE PropagateSigns(_, _)
PropagateSigns(sg, cs) ==
    IF cs = <<>> THEN sg ELSE PropagateSigns(SignCycle(sg, Head(cs)), Tail(cs))

\* Arrows that are in no discovered cycle default to +1.
ComputeSigns ==
    /\ pc = "cycles"
    /\ LET sg == PropagateSigns(<<>>, cycles)
       IN  signs' = [e \in Range(arrows) |-> IF e \in DOMAIN sg THEN sg[e] ELSE 1]
    /\ pc' = "signs"
    /\ UNCHANGED <<bvars, m, index_set, WeylDic, word_length, overwritten, WeylDicReverse,
                   arrows, cycles, mvars, dvars, fvars, pvars>>

GraphNext == WeylRound \/ WeylFinish \/ ConstructBGGGraph \/ FindCycles \/ ComputeSigns

GraphSpec == GraphInit /\ [][GraphNext]_vars

(***************************************************************************)
(* Properties of the graph                                                 *)
(***************************************************************************)
\* The BGGComplex object is constructed (dictionary and graph).
Built == pc \in {"graph", "cycles", "KeyError", "signs"}

ArrowSet == Range(arrows)

\* The pairs (w, w') with element(w') = t * element(w) for a reflection t
\* and Coxeter length raised by one.
BruhatArrows ==
    {p \in Keys \X Keys :
       /\ \E i \in DOMAIN Reflections(m) :
             WeylDic[p[2]] = Mult(Reflections(m)[i], WeylDic[p[1]], m)
       /\ CoxeterLength(WeylDic[p[2]], m) = CoxeterLength(WeylDic[p[1]], m) + 1}

\* The admissible cycles of the recorded graph.
Admissible ==
    {c \in Keys \X Keys \X Keys \X Keys \X Keys :
       /\ c[5] = c[1]
       /\ c[2] # c[4]
       /\ <<c[1], c[2]>> \in ArrowSet /\ <<c[2], c[3]>> \in ArrowSet
       /\ <<c[1], c[4]>> \in ArrowSet /\ <<c[4], c[3]>> \in ArrowSet}

\* C3: once the signs are computed, the product of the four signs around
\* every admissible cycle (a, b, c, b', a) of the graph is -1.
C3_CycleSignProduct ==
    pc = "signs" =>
        \A c \in Admissible :
            signs[<<c[1], c[2]>>] * signs[<<c[2], c[3]>>]
              * signs[<<c[1], c[4]>>] * signs[<<c[4], c[3]>>] = 0 - 1

\* C4: when _compute_weyl_dictionary has finished, every group element is
\* the value of exactly one key, no key was overwritten by another element,
\* the number of keys is the group order and WeylDicReverse inverts WeylDic.
C4_WeylDicEnumeratesOnce ==
    pc # "enumerate" =>
        /\ \A g \in Elements(m) : Cardinality({k \in Keys : WeylDic[k] = g}) = 1
        /\ overwritten = {}
        /\ Cardinality(Keys) = Order(m)
        /\ \A k \in Keys : WeylDicReverse[WeylDic[k]] = k

\* C5: after _construct_BGG_graph the list arrows holds exactly the pairs
\* (w, w') related by a reflection with Coxeter length raised by one, each
\* once, and every key is as long as the Coxeter length of its element.
C5_ArrowsAreBruhatCovers ==
    Built =>
        /\ ArrowSet = BruhatArrows
        /\ \A i, j \in DOMAIN arrows : arrows[i] = arrows[j] => i = j
        /\ \A k \in Keys : Len(k) = CoxeterLength(WeylDic[k], m)

\* C6: every element other than the identity is the target of an arrow and
\* every arrow raises the Coxeter length by exactly one.
C6_GradedAndConnected ==
    Built =>
        /\ \A k \in Keys : WeylDic[k] # One => \E a \in ArrowSet : a[2] = k
        /\ \A a \in ArrowSet :
              CoxeterLength(WeylDic[a[2]], m) = CoxeterLength(WeylDic[a[1]], m) + 1

\* C7: find_cycles returns exactly the admissible cycles: (a, b, c, b', a) is
\* returned iff (a,b), (b,c), (a,b'), (b',c) are arrows and b # b'.
C7_FindCyclesExact ==
    pc \in {"cycles", "signs"} => Range(cycles) = Admissible

(***************************************************************************)
(* numpy integers.  An int32 is a word <<hi, lo>> of two 16-bit halves     *)
(* (two's complement); a platform integer is <<q, hi, lo>> with value      *)
(* q * 2^32 + hi * 2^16 + lo.                                              *)
(***************************************************************************)
\* The int32 of a small non-negative literal.
Word(n) == << n \div 65536, n % 65536 >>

\* The product of two 16-bit halves as a word.
Mul16(x, y) ==
    LET t1 == (x \div 256) * y
        t0 == (x % 256) * y
        low == (t1 % 256) * 256 + t0
    IN  << ((t1 \div 256) + (low \div 65536)) % 65536, low % 65536 >>

\* int32 * int32 -> int32, wrapping
MulW(a, b) ==
    LET ll == Mul16(a[2], b[2])
        lh == Mul16(a[2], b[1])
        hl == Mul16(a[1], b[2])
    IN  << (ll[1] + lh[2] + hl[2]) % 65536, ll[2] >>

\* int32 - int32 -> int32, wrapping
SubW(a, b) ==
    LET lo == a[2] - b[2]
    IN  << (a[1] - b[1] - (IF lo < 0 THEN 1 ELSE 0)) % 65536, lo % 65536 >>

RECURSIVE PowW(_, _)
\* base ** e in int32, wrapping
PowW(base, e) == IF e = 0 THEN Word(1) ELSE MulW(base, PowW(base, e - 1))

\* An int32 converted to the platform integer (sign extension).
ToInt(w) == << IF w[1] >= 32768 THEN 0 - 1 ELSE 0, w[1], w[2] >>

\* The sum of two platform integers; a platform integer of 32 bits wraps.
AddInt(x, y, bits) ==
    LET lo == x[3] + y[3]
        hi == x[2] + y[2] + (lo \div 65536)
        q == x[1] + y[1] + (hi \div 65536)
    IN  IF bits = 32 THEN ToInt(<< hi % 65536, lo % 65536 >>)
        ELSE << q, hi % 65536, lo % 65536 >>

RECURSIVE SumInt(_, _)
\* np.sum of a row of int32 values, accumulated in the platform integer
SumInt(ws, bits) ==
    IF ws = <<>> THEN << 0, 0, 0 >>
    ELSE AddInt(SumInt(Tail(ws), bits), ToInt(Head(ws)), bits)

\* Base of the powers in pow_array and of the powers in component_primes.
HashBase == 33
HashPrime == 7919

(***************************************************************************)
(* The Lie algebra (collaborator): g = sl2 + sl2, of type A1xA1, in its    *)
(* Chevalley basis.  root_to_index numbers the basis e1 = 0, e2 = 1,       *)
(* f1 = 2, f2 = 3, h1 = 4, h2 = 5.                                         *)
(***************************************************************************)
\* A dict is a function with a finite domain; {} is the empty function.
EmptyDict == <<>>

\* The simple factor of basis element i, and whether it is an e, f or h.
Factor(i) == (i % 2) + 1
Kind(i) == IF i < 2 THEN "e" ELSE IF i < 4 THEN "f" ELSE "h"

\* index_to_lie_algebra[i].bracket(index_to_lie_algebra[j]) as a dict
\* index -> coefficient: [e, f] = h, [h, e] = 2e, [h, f] = -2f.
Bracket(i, j) ==
    IF Factor(i) # Factor(j) \/ Kind(i) = Kind(j) THEN EmptyDict
    ELSE CASE Kind(i) = "e" /\ Kind(j) = "f" -> ((i + 4) :> 1)
           [] Kind(i) = "f" /\ Kind(j) = "e" -> ((j + 4) :> (0 - 1))
           [] Kind(i) = "h" /\ Kind(j) = "e" -> (j :> 2)
           [] Kind(i) = "e" /\ Kind(j) = "h" -> (i :> (0 - 2))
           [] Kind(i) = "h" /\ Kind(j) = "f" -> (j :> (0 - 2))
           [] Kind(i) = "f" /\ Kind(j) = "h" -> (i :> 2)

(***************************************************************************)
(* FastModuleFactory                                                       *)
(***************************************************************************)
g_basis == <<0, 1, 2, 3, 4, 5>>

\* self.basis: the indices of u (e_roots), n (f_roots) and b (n and Cartan)
FactoryBasis == [u |-> <<0, 1>>, n |-> <<2, 3>>, b |-> <<2, 3, 4, 5>>]

\* weight_dic: the root of a root vector in simple roots, zero on the Cartan
weight_dic ==
    [i \in 0..5 |->
        IF Kind(i) = "h" THEN <<0, 0>>
        ELSE LET c == IF Kind(i) = "e" THEN 1 ELSE 0 - 1
             IN  IF Factor(i) = 1 THEN <<c, 0>> ELSE <<0, c>>]

\* The simple roots a root vector is supported on (the keys of
\* r.monomial_coefficients()): e_j and f_j are supported on {j}.
Support(i) == {Factor(i)}

RECURSIVE SortedList(_)
\* sorted(...) of a set of indices
SortedList(S) ==
    IF S = {} THEN <<>>
    ELSE LET x == CHOOSE y \in S : \A z \in S : y <= z
         IN  <<x>> \o SortedList(S \ {x})

\* parabolic_p_basis(subset): b and the e_roots supported inside subset
parabolic_p_basis(subset) ==
    SortedList(Range(FactoryBasis.b)
                 \cup {i \in Range(FactoryBasis.u) : Support(i) \subseteq Range(subset)})

\* parabolic_n_basis(subset): the f_roots not supported inside subset
parabolic_n_basis(subset) ==
    SortedList({i \in Range(FactoryBasis.n) : ~(Support(i) \subseteq Range(subset))})

\* parabolic_u_basis(subset): the e_roots not supported inside subset
parabolic_u_basis(subset) ==
    SortedList({i \in Range(FactoryBasis.u) : ~(Support(i) \subseteq Range(subset))})

\* module_dic of build_component
module_dic(subset) ==
    [g |-> g_basis, n |-> parabolic_n_basis(subset), u |-> parabolic_u_basis(subset),
     p |-> parabolic_p_basis(subset)]

\* dual_root_dict: e_j and f_j are dual to each other, h_j to itself
dual_root_dict == [i \in 0..5 |-> IF i < 2 THEN i + 2 ELSE IF i < 4 THEN i - 2 ELSE i]

\* action[(i, j)] of a defaultdict(dict)
ActionAt(action, i, j) == IF <<i, j>> \in DOMAIN action THEN action[<<i, j>>] ELSE EmptyDict

\* the keys of all brackets of lie_algebra on module
action_keys(lie_algebra, module) ==
    UNION {DOMAIN Bracket(p[1], p[2]) : p \in Range(lie_algebra) \X Range(module)}

\* adjoint_action_tensor without the test that the module is closed
adjoint_action_tensor_unchecked(lie_algebra, module) ==
    [raised |-> FALSE,
     action |-> [p \in {q \in Range(lie_algebra) \X Range(module) :
                           DOMAIN Bracket(q[1], q[2]) # {}}
                    |-> Bracket(p[1], p[2])]]

\* adjoint_action_tensor: (i, j) -> bracket, stored where it is not empty;
\* raises ValueError when a key of a bracket is not in the module
adjoint_action_tensor(lie_algebra, module) ==
    IF ~(action_keys(lie_algebra, module) \subseteq Range(module))
    THEN [raised |-> TRUE, action |-> EmptyDict]
    ELSE [raised |-> FALSE,
          action |-> [p \in {q \in Range(lie_algebra) \X Range(module) :
                                DOMAIN Bracket(q[1], q[2]) # {}}
                         |-> Bracket(p[1], p[2])]]

\* coadjoint_action_tensor without the restriction to the module: the dual
\* of every monomial of the bracket [i, k_dual] gets an entry
coadjoint_action_tensor_unrestricted(lie_algebra, module) ==
    [p \in {q \in Range(lie_algebra) \X Range(g_basis) :
              \E k \in Range(module) :
                  dual_root_dict[q[2]] \in DOMAIN Bracket(q[1], dual_root_dict[k])}
        |-> [k \in {h \in Range(module) :
                      dual_root_dict[p[2]] \in DOMAIN Bracket(p[1], dual_root_dict[h])}
                |-> 0 - Bracket(p[1], dual_root_dict[k])[dual_root_dict[p[2]]]]]

\* coadjoint_action_tensor: action[(i, dual_monomial)][k] = -coefficient for
\* every monomial of the bracket [i, k_dual] whose dual is in the module
coadjoint_action_tensor(lie_algebra, module) ==
    [p \in {q \in Range(lie_algebra) \X Range(module) :
              \E k \in Range(module) :
                  dual_root_dict[q[2]] \in DOMAIN Bracket(q[1], dual_root_dict[k])}
        |-> [k \in {h \in Range(module) :
                      dual_root_dict[p[2]] \in DOMAIN Bracket(p[1], dual_root_dict[h])}
                |-> 0 - Bracket(p[1], dual_root_dict[k])[dual_root_dict[p[2]]]]]

\* What build_component gives: a ValueError with its message, or the
\* FastModuleComponent(module, action, self).
Raised(message) == [error |-> message, basis |-> <<>>, action |-> EmptyDict]
FastModuleComponent(basis, action) == [error |-> "", basis |-> basis, action |-> action]

\* build_component with an action type that is not 'ad' taken as 'coad'
build_component_else_coadjoint(subalgebra, action_type, subset, acting_lie_algebra) ==
    IF subalgebra \notin DOMAIN module_dic(subset) THEN Raised("Unknown subalgebra")
    ELSE IF acting_lie_algebra \notin DOMAIN module_dic(subset) THEN Raised("Unknown subalgebra")
    ELSE IF action_type = "ad"
    THEN IF adjoint_action_tensor(module_dic(subset)[acting_lie_algebra],
                                  module_dic(subset)[subalgebra]).raised
         THEN Raised("The module is not closed under the adjoint action")
         ELSE FastModuleComponent(module_dic(subset)[subalgebra],
                  adjoint_action_tensor(module_dic(subset)[acting_lie_algebra],
                                        module_dic(subset)[subalgebra]).action)
    ELSE FastModuleComponent(module_dic(subset)[subalgebra],
             coadjoint_action_tensor(module_dic(subset)[acting_lie_algebra],
                                     module_dic(subset)[subalgebra]))

\* build_component(subalgebra, action_type, subset, acting_lie_algebra)
build_component(subalgebra, action_type, subset, acting_lie_algebra) ==
    IF subalgebra \notin DOMAIN module_dic(subset) THEN Raised("Unknown subalgebra")
    ELSE IF acting_lie_algebra \notin DOMAIN module_dic(subset) THEN Raised("Unknown subalgebra")
    ELSE IF action_type = "ad"
    THEN IF adjoint_action_tensor(module_dic(subset)[acting_lie_algebra],
                                  module_dic(subset)[subalgebra]).raised
         THEN Raised("The module is not closed under the adjoint action")
         ELSE FastModuleComponent(module_dic(subset)[subalgebra],
                  adjoint_action_tensor(module_dic(subset)[acting_lie_algebra],
                                        module_dic(subset)[subalgebra]).action)
    ELSE IF action_type = "coad"
    THEN FastModuleComponent(module_dic(subset)[subalgebra],
             coadjoint_action_tensor(module_dic(subset)[acting_lie_algebra],
                                     module_dic(subset)[subalgebra]))
    ELSE Raised("not a valid type of action")

\* The component_dic the modules are built with: g, b = p and n under the
\* adjoint action of n.
component_dic ==
    [k \in {"g", "b", "n"} |->
        build_component(IF k = "b" THEN "p" ELSE k, "ad", <<>>, "n")]

(***************************************************************************)
(* FastModuleComponent                                                     *)
(***************************************************************************)
RECURSIVE SumOver(_, _)
\* sum of f[x] for x in S
SumOver(f, S) ==
    IF S = {} THEN 0
    ELSE LET x == CHOOSE y \in S : TRUE IN f[x] + SumOver(f, S \ {x})

\* action_on_vector(i, X, action): output[k] += c1 * c2 over j in X and k in
\* action[(i, j)]
action_on_vector(i, X, action) ==
    [k \in UNION {DOMAIN ActionAt(action, i, j) : j \in DOMAIN X} |->
        SumOver([j \in DOMAIN X |->
                    IF k \in DOMAIN ActionAt(action, i, j)
                    THEN X[j] * ActionAt(action, i, j)[k] ELSE 0],
                DOMAIN X)]

\* add_dicts(dict1, dict2)
add_dicts(dict1, dict2) ==
    [k \in DOMAIN dict1 \cup DOMAIN dict2 |->
        (IF k \in DOMAIN dict1 THEN dict1[k] ELSE 0)
          + (IF k \in DOMAIN dict2 THEN dict2[k] ELSE 0)]

RECURSIVE ApplyWord(_, _, _)
\* the terms of monomial.to_word_list()[::-1] applied one after the other
ApplyWord(word, image, action) ==
    IF word = <<>> THEN image
    ELSE ApplyWord(SubSeq(word, 1, Len(word) - 1),
                   action_on_vector(word[Len(word)], image, action), action)

RECURSIVE TotalAction(_, _, _)
\* total for one basis index b: the sub_totals of all monomials of pbw_elt
\* added up; the monomial's coefficient is not used
TotalAction(pbw, b, action) ==
    IF pbw = <<>> THEN EmptyDict
    ELSE add_dicts(TotalAction(Tail(pbw), b, action),
                   ApplyWord(Head(pbw)[1], (b :> 1), action))

\* {k: v for k, v in d.items() if v != 0}
NonZero(d) == [k \in {j \in DOMAIN d : d[j] # 0} |-> d[k]]

\* The keys of the action table of every component, as built.
stored_keys(dic) == [k \in DOMAIN dic |-> DOMAIN dic[k].action]

RECURSIVE LookedUp(_, _, _)
\* The keys (i, j) that action_on_vector reads in action, a defaultdict,
\* while the terms of a word are applied one after the other; a key that is
\* read and missing is inserted with an empty dict.
LookedUp(word, image, action) ==
    IF word = <<>> THEN {}
    ELSE {<<word[Len(word)], j>> : j \in DOMAIN image}
           \cup LookedUp(SubSeq(word, 1, Len(word) - 1),
                         action_on_vector(word[Len(word)], image, action), action)

\* The keys read by pbw_action_matrix(pbw_elt) of one component.
LookedUpBy(component, pbw) ==
    UNION {LookedUp(pbw[q][1], (component.basis[b] :> 1), component.action) :
             q \in DOMAIN pbw, b \in DOMAIN component.basis}

\* The stored keys after set_pbw_action_matrix(pbw_elt).
TableAfter(table, pbw) ==
    [k \in DOMAIN table |-> table[k] \cup LookedUpBy(component_dic[k], pbw)]

RECURSIVE TableAfterAll(_, _)
\* The stored keys after set_pbw_action_matrix of each element of a list.
TableAfterAll(table, maps) ==
    IF maps = <<>> THEN table
    ELSE TableAfterAll(TableAfter(table, Head(maps)), Tail(maps))

\* pbw_action_matrix(pbw_elt): the list of (basis index, dict)
pbw_action_matrix(component, pbw) ==
    [p \in DOMAIN component.basis |->
        << component.basis[p], NonZero(TotalAction(pbw, component.basis[p], component.action)) >>]

(***************************************************************************)
(* FastLieAlgebraCompositeModule: construction                             *)
(***************************************************************************)
\* the basis of every component of a dictionary of FastModuleComponent
BasisOf(dic) == [k \in DOMAIN dic |-> dic[k].basis]

\* self.modules: the basis of each component type
modules == BasisOf(component_dic)

\* self.max_index
\* max(...) of a set of indices
Maximum(S) == CHOOSE x \in S : \A y \in S : y <= x

\* the indices that occur in the bases of the component types
AllIndices(ms) == UNION {Range(ms[k]) : k \in DOMAIN ms}

max_index == Maximum(AllIndices(modules))

\* self.pow_array = 33 ** np.arange(max_index + 1, dtype=np.int32)
pow_array == [i \in 0..max_index |-> PowW(Word(HashBase), i)]

RECURSIVE Combinations(_, _)
\* itertools.combinations(s, n)
Combinations(s, n) ==
    IF n = 0 THEN << <<>> >>
    ELSE IF s = <<>> THEN <<>>
    ELSE LET with == Combinations(Tail(s), n - 1)
         IN  [i \in DOMAIN with |-> <<Head(s)>> \o with[i]] \o Combinations(Tail(s), n)

RECURSIVE CombinationsWithReplacement(_, _)
\* itertools.combinations_with_replacement(s, n)
CombinationsWithReplacement(s, n) ==
    IF n = 0 THEN << <<>> >>
    ELSE IF s = <<>> THEN <<>>
    ELSE LET with == CombinationsWithReplacement(s, n - 1)
         IN  [i \in DOMAIN with |-> <<Head(s)>> \o with[i]]
               \o CombinationsWithReplacement(Tail(s), n)

\* One entry of tensor_components; a tensor type other than 'sym' and
\* 'wedge' raises ValueError unless n_inputs is 1.
\* the rows of the power c.n_inputs of kind c.tensor_type of a basis
TensorPower(basis, c) ==
    IF c.n_inputs = 1 THEN [i \in DOMAIN basis |-> << basis[i] >>]
    ELSE IF c.tensor_type = "sym" THEN CombinationsWithReplacement(basis, c.n_inputs)
    ELSE IF c.tensor_type = "wedge" THEN Combinations(basis, c.n_inputs)
    ELSE "ValueError"

TensorComponent(c) == TensorPower(modules[c.module], c)

RECURSIVE TensorRows(_)
\* the rows of the tensor product of tensor_components, the first component
\* varying slowest (np.indices)
TensorRows(tcs) ==
    IF tcs = <<>> THEN << <<>> >>
    ELSE LET rest == TensorRows(Tail(tcs))
         IN  Concat([i \in DOMAIN Head(tcs) |->
                        [j \in DOMAIN rest |-> Head(tcs)[i] \o rest[j]]])

\* construct_component(component): one row per basis element
construct_component(component) ==
    TensorRows([i \in DOMAIN component |-> TensorComponent(component[i])])

RECURSIVE total_weight(_)
\* np.sum(weight_mat[row]) for one row
total_weight(row) ==
    IF row = <<>> THEN <<0, 0>>
    ELSE LET t == total_weight(Tail(row))
         IN  << weight_dic[Head(row)][1] + t[1], weight_dic[Head(row)][2] + t[2] >>

\* the rows of a list that have weight w, in the order of the list
RowsOfWeight(rows, w) ==
    LET HasWeight(row) == total_weight(row) = w
    IN  SelectSeq(rows, HasWeight)

\* compute_weight_components(direct_sum_component): weight -> rows
compute_weight_components(direct_sum_component) ==
    [w \in {total_weight(direct_sum_component[i]) : i \in DOMAIN direct_sum_component} |->
        RowsOfWeight(direct_sum_component, w)]

RECURSIVE AppendComponents(_, _, _)
\* the loop of initialize_weight_components from summand i on: d is the
\* dictionary weight -> list of (i, basis) so far
AppendComponents(comps, i, d) ==
    IF i > Len(comps) THEN d
    ELSE LET dswc == compute_weight_components(construct_component(comps[i]))
         IN  AppendComponents(comps, i + 1,
                 [w \in DOMAIN d \cup DOMAIN dswc |->
                     IF w \notin DOMAIN dswc THEN d[w]
                     ELSE (IF w \in DOMAIN d THEN d[w] ELSE <<>>) \o << <<i, dswc[w]>> >>])

\* initialize_weight_components()
initialize_weight_components(comps) == AppendComponents(comps, 1, EmptyDict)

RECURSIVE SlotOrdinals(_, _)
\* comp_primes of compute_component_primes: i + 1 repeated n_inputs times
SlotOrdinals(component, i) ==
    IF i > Len(component) THEN <<>>
    ELSE [j \in 1..component[i].n_inputs |-> i] \o SlotOrdinals(component, i + 1)

\* compute_component_primes(index): 7919 ** comp_primes in int32
compute_component_primes(comps, index) ==
    LET comp_primes == SlotOrdinals(comps[index], 1)
    IN  [j \in DOMAIN comp_primes |-> PowW(Word(HashPrime), comp_primes[j])]

\* self.component_primes
component_primes(comps) == [index \in DOMAIN comps |-> compute_component_primes(comps, index)]

RECURSIVE SumLens(_)
SumLens(p) == IF p = <<>> THEN 0 ELSE Len(Head(p)[2]) + SumLens(Tail(p))

\* dimensions that count the rows of the first (i, basis) of a weight only
dimensions_of_first_entry(wcs) == [w \in DOMAIN wcs |-> Len(wcs[w][1][2])]

\* self.dimensions
dimensions(wcs) == [w \in DOMAIN wcs |-> SumLens(wcs[w])]

RECURSIVE TypeList(_)
\* type_list of one summand: the module type of each tensor slot
TypeList(comp) ==
    IF comp = <<>> THEN <<>>
    ELSE [j \in 1..Head(comp).n_inputs |-> Head(comp).module] \o TypeList(Tail(comp))

type_lists(comps) == [index \in DOMAIN comps |-> TypeList(comps[index])]

RECURSIVE SliceList(_, _)
\* slice_list of one summand: (tensor type, sub column, start, end) per
\* slot, columns counted from 0
SliceList(comp, start_slice) ==
    IF comp = <<>> THEN <<>>
    ELSE LET c == Head(comp)
             end_slice == start_slice + c.n_inputs
         IN  [j \in 1..c.n_inputs |-> << c.tensor_type, j - 1, start_slice, end_slice >>]
               \o SliceList(Tail(comp), end_slice)

slice_lists(comps) == [index \in DOMAIN comps |-> SliceList(comps[index], 0)]

\* get_hash(weight_component): per row, the sum over the slots of
\* comp_primes * pow_array[entry], the products in int32 and the sum in the
\* platform integer
get_hash(comps, weight_component, bits) ==
    LET index == weight_component[1]
        vector_list == weight_component[2]
        comp_primes == compute_component_primes(comps, index)
    IN  [r \in DOMAIN vector_list |->
            SumInt([c \in DOMAIN vector_list[r] |->
                       MulW(comp_primes[c], pow_array[vector_list[r][c]])], bits)]

(***************************************************************************)
(* FastLieAlgebraCompositeModule: the action of a PBW element              *)
(***************************************************************************)
\* A PBW element is the list of its (monomial, coefficient) pairs; a
\* monomial is its to_word_list() with the generators as basis indices.

\* set_pbw_action_matrix(pbw_elt): the cache, one matrix per component type
ActionMatrixOf(pbw) ==
    [key \in DOMAIN component_dic |-> pbw_action_matrix(component_dic[key], pbw)]

\* permutation_signs with a sort_parity that counts the other entries larger
\* than new_index
PermutationSign_counting_larger(row, column, slice, new_index) ==
    LET slic == ((slice[3] + 1)..slice[4]) \ {column}
        larger == Cardinality({c \in slic : row[c] > new_index})
        sort_parity == IF (slice[2] + (larger % 2)) % 2 = 0 THEN 1 ELSE 0 - 1
        is_double == 1 - Cardinality({c \in slic : row[c] = new_index})
    IN  sort_parity * is_double

\* permutation_signs with a sort_parity that leaves out sub_column
PermutationSign_without_sub_column(row, column, slice, new_index) ==
    LET slic == ((slice[3] + 1)..slice[4]) \ {column}
        smaller == Cardinality({c \in slic : row[c] < new_index})
        sort_parity == IF smaller % 2 = 0 THEN 1 ELSE 0 - 1
        is_double == 1 - Cardinality({c \in slic : row[c] = new_index})
    IN  sort_parity * is_double

\* permutation_signs of one row for a wedge slot: slic is the other columns
\* of the slot's tensor component (columns counted from 1 here)
PermutationSign(row, column, slice, new_index) ==
    LET slic == ((slice[3] + 1)..slice[4]) \ {column}
        smaller == Cardinality({c \in slic : row[c] < new_index})
        sort_parity == IF (slice[2] + (smaller % 2)) % 2 = 0 THEN 1 ELSE 0 - 1
        is_double == 1 - Cardinality({c \in slic : row[c] = new_index})
    IN  sort_parity * is_double

\* What one (old_index, new_index, coefficient) of the action queue appends
\* for one row of split_indices[old_index]: the row, the shifted hash and
\* the coefficient.  For a tensor type other than 'sym' and 'wedge' the
\* coefficient array is None (0 here, see AppendsNone).
Contribution(row, r, column, slice, prime, hash, old_index, new_index, coefficient, bits) ==
    [row |-> r, column |-> column, old |-> old_index, new |-> new_index,
     hash |-> AddInt(hash,
                     ToInt(MulW(prime, SubW(pow_array[new_index], pow_array[old_index]))),
                     bits),
     coef |-> IF slice[1] = "sym" THEN coefficient
              ELSE IF slice[1] = "wedge"
              THEN coefficient * PermutationSign(row, column, slice, new_index)
              ELSE 0]

\* The contributions of one column: action is the cached matrix of the
\* column's type, a list of (i, d).
ColumnContributions(basis, column, action, slice, prime, row_hashes, bits) ==
    { Contribution(basis[t[3]], t[3], column, slice, prime, row_hashes[t[3]],
                   action[t[1]][1], t[2], action[t[1]][2][t[2]], bits) :
        t \in {u \in (DOMAIN action) \X (0..max_index) \X (DOMAIN basis) :
                  /\ u[2] \in DOMAIN action[u[1]][2]
                  /\ basis[u[3]][column] = action[u[1]][1]} }

AllContributions(basis, type_list, slice_list, primes, row_hashes, matrix, bits) ==
    UNION { ColumnContributions(basis, column, matrix[type_list[column]],
                                slice_list[column], primes[column], row_hashes, bits) :
              column \in DOMAIN type_list }

\* output_basis, output_hashes and output_coefficients of compute_pbw_action
Emitted(comps, matrix, wc, bits) ==
    AllContributions(wc[2], TypeList(comps[wc[1]]), SliceList(comps[wc[1]], 0),
                     compute_component_primes(comps, wc[1]), get_hash(comps, wc, bits),
                     matrix, bits)

\* a column whose tensor type is neither 'sym' nor 'wedge' appends None
AppendsNone(comps, wc, em) ==
    \E e \in em : SliceList(comps[wc[1]], 0)[e.column][1] \notin {"sym", "wedge"}

\* the merge where a (row, hash) pair keeps the coefficient of one of its
\* contributions instead of their sum
Merged_without_summing(em) ==
    { t \in { << k[1], k[2], (CHOOSE e \in em : e.row = k[1] /\ e.hash = k[2]).coef >> :
                k \in {<<e.row, e.hash>> : e \in em} } :
        t[3] # 0 }

\* the merged coefficients with the zero sums kept
Merged_keeping_zeros(em) ==
    { << k[1], k[2],
         SumOver([e \in {x \in em : x.row = k[1] /\ x.hash = k[2]} |-> e.coef],
                 {x \in em : x.row = k[1] /\ x.hash = k[2]}) >> :
        k \in {<<e.row, e.hash>> : e \in em} }

\* gb.sum(output_coefficients) over equal (row, hash) pairs, zero sums
\* dropped; nothing at all when nothing was appended
Merged(em) ==
    { t \in { << k[1], k[2],
                 SumOver([e \in {x \in em : x.row = k[1] /\ x.hash = k[2]} |-> e.coef],
                         {x \in em : x.row = k[1] /\ x.hash = k[2]}) >> :
                k \in {<<e.row, e.hash>> : e \in em} } :
        t[3] # 0 }

(***************************************************************************)
(* LieAlgebraModule (lie_algebra_module.py): the symbolic modules.  The    *)
(* basis key of a tensor product is the list of the keys of its factors;   *)
(* the key of a factor is the list of its indices.                         *)
(***************************************************************************)
RECURSIVE Insert(_, _)
Insert(x, s) ==
    IF s = <<>> THEN <<x>>
    ELSE IF x <= Head(s) THEN <<x>> \o s
    ELSE <<Head(s)>> \o Insert(x, Tail(s))

RECURSIVE Sorted(_)
\* sorted(keys)
Sorted(s) == IF s = <<>> THEN <<>> ELSE Insert(Head(s), Sorted(Tail(s)))

\* AlternatingProduct.parity(): 0 with a repeated key, else the sign of the
\* permutation that sorts the keys
parity(keys) ==
    IF Cardinality(Range(keys)) < Len(keys) THEN 0
    ELSE IF Cardinality({p \in (DOMAIN keys) \X (DOMAIN keys) :
                            p[1] < p[2] /\ keys[p[1]] > keys[p[2]]}) % 2 = 1
         THEN 0 - 1 ELSE 1

\* out_dict[target] += coefficient over a set of terms (id, target,
\* coefficient)
Collect(terms) ==
    [k \in {t[2] : t \in terms} |->
        SumOver([t \in {u \in terms : u[2] = k} |-> t[3]], {u \in terms : u[2] = k})]

\* fast_adjoint_action(X, m) for a basis element X: the bracket as a dict
fast_adjoint_action(X, key) == Bracket(X, key)

\* One term of the action on a factor: slot index of the key fkey replaced
\* by t with coefficient c.  symmetric_power sorts the key, alternating_power
\* multiplies by the parity and sorts, skipping the term when the parity is 0;
\* a power of 1 is the module itself.
FactorTerm(fkey, index, t, c, desc) ==
    LET replaced == [fkey EXCEPT ![index] = t]
    IN  IF desc.n_inputs = 1 THEN {<< <<index, t>>, replaced, c >>}
        ELSE IF desc.tensor_type = "sym" THEN {<< <<index, t>>, Sorted(replaced), c >>}
        ELSE IF parity(replaced) = 0 THEN {}
        ELSE {<< <<index, t>>, Sorted(replaced), c * parity(replaced) >>}

\* _index_action(X, m) of symmetric_power(n) and alternating_power(n)
FactorAction(X, fkey, desc) ==
    Collect(UNION { UNION { FactorTerm(fkey, index, t,
                                       fast_adjoint_action(X, fkey[index])[t], desc) :
                              t \in DOMAIN fast_adjoint_action(X, fkey[index]) } :
                      index \in DOMAIN fkey })

\* _index_action(X, m) of tensor_product(*modules)
TensorAction(X, key, comp) ==
    Collect(UNION { { << <<index, fk>>, [key EXCEPT ![index] = fk],
                         FactorAction(X, key[index], comp[index])[fk] >> :
                        fk \in DOMAIN FactorAction(X, key[index], comp[index]) } :
                      index \in DOMAIN key })

\* LieAlgebraModule.action(X, m): the index action extended linearly
LieAlgebraModule_action(X, elem, comp) ==
    NonZero(Collect(UNION { { << <<i, j>>, j, elem[i] * TensorAction(X, i, comp)[j] >> :
                                j \in DOMAIN TensorAction(X, i, comp) } :
                              i \in DOMAIN elem }))

RECURSIVE ActSuccessively(_, _, _)
\* the generators of a monomial applied from the right-most on
ActSuccessively(word, elem, comp) ==
    IF word = <<>> THEN elem
    ELSE ActSuccessively(SubSeq(word, 1, Len(word) - 1),
                         LieAlgebraModule_action(word[Len(word)], elem, comp), comp)

\* LieAlgebraModule.pbw_action(pbw_elt, m) for a basis element m
LieAlgebraModule_pbw_action(pbw, key, comp) ==
    NonZero(Collect(UNION { { << <<p, k>>, k,
                                 pbw[p][2] * ActSuccessively(pbw[p][1], (key :> 1), comp)[k] >> :
                                k \in DOMAIN ActSuccessively(pbw[p][1], (key :> 1), comp) } :
                              p \in DOMAIN pbw }))

RECURSIVE FactorKeys(_, _)
\* The key of the symbolic module that a row of the fast module stands for:
\* the row cut into the factors of the summand.
FactorKeys(row, comp) ==
    IF comp = <<>> THEN <<>>
    ELSE << SubSeq(row, 1, Head(comp).n_inputs) >>
           \o FactorKeys(SubSeq(row, Head(comp).n_inputs + 1, Len(row)), Tail(comp))

(***************************************************************************)
(* The composite modules and PBW elements the module is exercised with     *)
(***************************************************************************)
\* Largest power of a symmetric or exterior power in a summand.
MaxPower == 2
\* Largest number of generators in a monomial of a PBW element.
MaxWordLen == 2

Descriptor(module, n_inputs, tensor_type) ==
    [module |-> module, n_inputs |-> n_inputs, tensor_type |-> tensor_type]

\* `components` arguments: lists of summands, a summand a list of
\* (component key, power, 'sym' or 'wedge')
ComponentChoices ==
    {comps \in
       { << << Descriptor("g", 1, "wedge") >> >>,
         << << Descriptor("b", 2, "wedge") >> >>,
         << << Descriptor("g", 2, "sym") >> >>,
         << << Descriptor("b", 3, "wedge") >> >>,
         << << Descriptor("n", 3, "sym") >> >>,
         << << Descriptor("g", 1, "sym"), Descriptor("b", 1, "wedge") >> >>,
         << << Descriptor("g", 1, "wedge"), Descriptor("g", 1, "wedge") >> >>,
         << << Descriptor("b", 1, "sym"), Descriptor("b", 2, "wedge") >> >>,
         << << Descriptor("n", 1, "wedge"), Descriptor("g", 2, "wedge") >> >>,
         << << Descriptor("n", 1, "wedge") >>, << Descriptor("b", 1, "wedge") >> >>,
         << << Descriptor("n", 1, "wedge") >> >>,
         << << Descriptor("n", 2, "wedge") >> >>,
         << << Descriptor("b", 2, "sym") >>, << Descriptor("b", 2, "wedge") >> >> } :
       \A i \in DOMAIN comps : \A j \in DOMAIN comps[i] : comps[i][j].n_inputs <= MaxPower}

\* `components` arguments with a tensor type that is neither 'sym' nor
\* 'wedge', of power 1 and of power 2
UnrecognisedChoices ==
    { << << Descriptor("g", 1, "alt") >> >>,
      << << Descriptor("b", 2, "alt") >> >>,
      << << Descriptor("g", 1, "sym"), Descriptor("b", 1, "alt") >> >>,
      << << Descriptor("n", 1, "wedge") >>, << Descriptor("g", 2, "alt") >> >> }

\* construct_component raises ValueError for the triple c: the test of the
\* tensor type is in the branch n_inputs != 1
RaisesValueError(c) == c.n_inputs # 1 /\ c.tensor_type \notin {"sym", "wedge"}

\* __init__ raises: construct_component does for some triple of some summand
ConstructionRaises(comps) ==
    \E i \in DOMAIN comps : \E j \in DOMAIN comps[i] : RaisesValueError(comps[i][j])

\* The monomials in the generators of n (f1 = 2, f2 = 3) in PBW order.
Monomials ==
    {w \in UNION {[1..k -> {2, 3}] : k \in 0..MaxWordLen} :
        \A i \in DOMAIN w : i = 1 \/ w[i - 1] <= w[i]}

\* PBW elements: one monomial with coefficient 1 or 2, or the sum of two
\* monomials.
PBWElements ==
    {<< <<w, c>> >> : w \in Monomials, c \in {1, 2}}
      \cup {<< <<p[1], 1>>, <<p[2], 1>> >> : p \in {q \in Monomials \X Monomials : q[1] # q[2]}}

(***************************************************************************)
(* The module and a caller of its methods                                  *)
(***************************************************************************)
\* The graph part of the state while only the module is used.
GraphIdle ==
    /\ pc = "idle"
    /\ m = 1
    /\ index_set = <<>>
    /\ WeylDic = <<>>
    /\ word_length = 0
    /\ overwritten = {}
    /\ WeylDicReverse = <<>>
    /\ arrows = <<>>
    /\ cycles = <<>>
    /\ signs = <<>>

\* FastLieAlgebraCompositeModule(weight_dic, components, component_dic)
ModuleInit ==
    /\ components \in ComponentChoices \cup UnrecognisedChoices
    /\ int_bits \in {32, 64}
    /\ mpc = IF ConstructionRaises(components) THEN "rejected" ELSE "constructed"
    /\ pbw_elt = <<>>
    /\ action_matrix = <<>>
    /\ action_table = stored_keys(component_dic)
    /\ weight = <<>>
    /\ hashes = <<>>
    /\ weight_comp = <<>>
    /\ emitted = {}
    /\ pbw_action = {}
    /\ GraphIdle
    /\ DiffIdle
    /\ FactoryIdle
    /\ RunsIdle
    /\ BasisIdle

\* hash_conflicts of get_hash: len(hashes) - len(set(hashes))
hash_conflicts(hs) == Len(hs) - Cardinality(Range(hs))

\* get_hash(weight_component, check_conflict) of every weight component of
\* one weight of the module; check_conflict is False unless the caller sets
\* it, and with it a conflict inside one weight component raises ValueError
GetHash ==
    /\ mpc = "constructed"
    /\ \E w \in DOMAIN initialize_weight_components(components), check_conflict \in BOOLEAN :
         \E hs \in {[k \in DOMAIN initialize_weight_components(components)[w] |->
                        get_hash(components,
                                 initialize_weight_components(components)[w][k], int_bits)]} :
           /\ weight' = w
           /\ hashes' = hs
           /\ mpc' = IF check_conflict /\ \E k \in DOMAIN hs : hash_conflicts(hs[k]) > 0
                     THEN "ValueError" ELSE "hashed"
    /\ UNCHANGED <<bvars, components, int_bits, pbw_elt, action_matrix, action_table, weight_comp,
                   emitted, pbw_action, gvars, dvars, fvars, pvars>>

\* set_pbw_action_matrix(pbw_elt)
SetPbwActionMatrix ==
    /\ mpc = "constructed"
    /\ \E elt \in PBWElements :
         /\ pbw_elt' = elt
         /\ action_matrix' = ActionMatrixOf(elt)
         /\ action_table' = TableAfter(action_table, elt)
    /\ mpc' = "cached"
    /\ UNCHANGED <<bvars, components, int_bits, weight, hashes, weight_comp, emitted, pbw_action,
                   gvars, dvars, fvars, pvars>>

\* compute_pbw_action(weight_comp) for a weight component of the module
ComputePbwAction ==
    /\ mpc = "cached"
    /\ \E w \in DOMAIN initialize_weight_components(components) :
         \E k \in DOMAIN initialize_weight_components(components)[w] :
           \E wc \in {initialize_weight_components(components)[w][k]} :
             \E em \in {Emitted(components, action_matrix, wc, int_bits)} :
               /\ weight_comp' = wc
               /\ emitted' = em
               /\ pbw_action' = IF AppendsNone(components, wc, em) THEN {} ELSE Merged(em)
               /\ mpc' = IF AppendsNone(components, wc, em) THEN "ValueError" ELSE "acted"
    /\ UNCHANGED <<bvars, components, int_bits, pbw_elt, action_matrix, action_table, weight, hashes,
                   gvars, dvars, fvars, pvars>>

ModuleNext == GetHash \/ SetPbwActionMatrix \/ ComputePbwAction

ModuleSpec == ModuleInit /\ [][ModuleNext]_vars

(***************************************************************************)
(* Properties of the module                                                *)
(***************************************************************************)
\* get_hash of a single row of summand index
RowHash(index, row) == get_hash(components, << index, << row >> >>, int_bits)[1]

\* C8: within one weight space, the basis elements of all the direct
\* summands together have pairwise distinct hashes.
C8_HashesDistinct ==
    mpc = "hashed" =>
        \A k1, k2 \in DOMAIN hashes :
            \A r1 \in DOMAIN hashes[k1], r2 \in DOMAIN hashes[k2] :
                <<k1, r1>> # <<k2, r2>> => hashes[k1][r1] # hashes[k2][r2]

\* C9: every target hash that compute_pbw_action obtains by shifting the
\* hash of a row is the hash get_hash gives directly for that row with the
\* slot's entry replaced by the new index.
C9_IncrementalHash ==
    mpc = "acted" =>
        \A e \in emitted :
            e.hash = RowHash(weight_comp[1], [weight_comp[2][e.row] EXCEPT ![e.column] = e.new])

\* The (target hash, coefficient) pairs of LieAlgebraModule.pbw_action on
\* the basis element that row r of the weight component stands for.
SymbolicPairs(r) ==
    LET comp == components[weight_comp[1]]
        image == LieAlgebraModule_pbw_action(pbw_elt, FactorKeys(weight_comp[2][r], comp), comp)
    IN  {<< RowHash(weight_comp[1], Concat(k)), image[k] >> : k \in DOMAIN image}

\* C10: for every basis element, the (target, coefficient) pairs that
\* set_pbw_action_matrix and compute_pbw_action give are the monomial
\* coefficients of LieAlgebraModule.pbw_action on the same element.
C10_FastEqualsSymbolic ==
    mpc = "acted" =>
        \A r \in DOMAIN weight_comp[2] :
            {<<t[2], t[3]>> : t \in {u \in pbw_action : u[1] = r}} = SymbolicPairs(r)

(***************************************************************************)
(* WeightSet, for the Weyl group of type A1xA1 (m = 2).  Weights are       *)
(* tuples of coefficients in the simple roots.                             *)
(***************************************************************************)
\* Largest coefficient of the weights mu handed to the differential.
MaxWeight == 1

\* action_dic[w] for the element g = WeylDic[w]: s_1 = <<0, 1>> negates the
\* first simple root, s_2 = <<1, 1>> the second (the matrix is diagonal)
action_dic(g) ==
    << IF g \in {<<0, 1>>, <<1, 0>>} THEN 0 - 1 ELSE 1,
       IF g \in {<<1, 1>>, <<1, 0>>} THEN 0 - 1 ELSE 1 >>

\* rho_action_dic[w] = w(rho) - rho, rho being half the sum of the simple
\* roots
rho_action_dic(g) ==
    << (action_dic(g)[1] - 1) \div 2, (action_dic(g)[2] - 1) \div 2 >>

\* dot_action(w, mu) = w(mu + rho) - rho
dot_action(g, mu) ==
    << action_dic(g)[1] * mu[1] + rho_action_dic(g)[1],
       action_dic(g)[2] * mu[2] + rho_action_dic(g)[2] >>

\* is_dominant(mu)
is_dominant(mu) == mu[1] >= 0 /\ mu[2] >= 0

\* get_vertex_weights(mu): the dot orbit, word -> weight
get_vertex_weights(mu) == [w \in Keys |-> dot_action(WeylDic[w], mu)]

(***************************************************************************)
(* BGG.column and BGG.compute_maps                                         *)
(***************************************************************************)
\* BGG.column[i]: the words of length i.  For i = -1 a list gives its last
\* entry (the column of the longest words).
BGGColumn(i) ==
    IF i >= 0 THEN {w \in Keys : Len(w) = i}
    ELSE {w \in Keys : \A k \in Keys : Len(k) <= Len(w)}

\* maps[a] for the arrow a = (w, w'): the power of the generator f_j that
\* lowers the weight w.mu to w'.mu, as a PBW element
compute_maps(mu, a) ==
    LET from == dot_action(WeylDic[a[1]], mu)
        to == dot_action(WeylDic[a[2]], mu)
        j == IF from[1] # to[1] THEN 1 ELSE 2
    IN  << << [p \in 1..(from[j] - to[j]) |-> FactoryBasis.n[j]], 1 >> >>

(***************************************************************************)
(* Integer matrices (collaborator).  A matrix is the list of its rows, a   *)
(* row the dict column -> entry of its entries that are not zero.          *)
(***************************************************************************)
RECURSIVE Gcd(_, _)
Gcd(a, b) == IF b = 0 THEN a ELSE Gcd(b, a % b)

Abs(x) == IF x < 0 THEN 0 - x ELSE x

RECURSIVE GcdOver(_, _)
\* the greatest common divisor of the entries of d at the columns S
GcdOver(d, S) ==
    IF S = {} THEN 0
    ELSE LET c == CHOOSE x \in S : TRUE IN Gcd(Abs(d[c]), GcdOver(d, S \ {c}))

\* a row divided by the greatest common divisor of its entries
Primitive(row) ==
    IF DOMAIN row = {} THEN row
    ELSE [c \in DOMAIN row |-> row[c] \div GcdOver(row, DOMAIN row)]

EntryAt(row, c) == IF c \in DOMAIN row THEN row[c] ELSE 0

\* row with its entry at column c cleared by means of the row pivot
Eliminate(row, pivot, c) ==
    IF c \notin DOMAIN row THEN row
    ELSE Primitive(NonZero([h \in DOMAIN row \cup DOMAIN pivot |->
                               pivot[c] * EntryAt(row, h) - row[c] * EntryAt(pivot, h)]))

RECURSIVE Rank(_)
\* matrix.rank(), by elimination
Rank(rows) ==
    IF rows = <<>> THEN 0
    ELSE IF DOMAIN Head(rows) = {} THEN Rank(Tail(rows))
    ELSE 1 + Rank([j \in DOMAIN Tail(rows) |->
                      Eliminate(Tail(rows)[j], Head(rows),
                                CHOOSE h \in DOMAIN Head(rows) : TRUE)])

(***************************************************************************)
(* BGGCohomology                                                           *)
(***************************************************************************)
\* [arrow for arrow in self.BGG.arrows if arrow[0] == w]
ArrowsFromVertex(w) ==
    LET LeavesW(a) == a[1] = w
    IN  SelectSeq(arrows, LeavesW)

RECURSIVE source_dim_of_vertices_with_arrows(_, _, _)
\* source_dim counted inside the loop over the arrows of a vertex: a vertex
\* without outgoing arrows adds nothing
source_dim_of_vertices_with_arrows(column, vertex_weights, dims) ==
    IF column = <<>> THEN 0
    ELSE (IF vertex_weights[Head(column)] \in DOMAIN dims
             /\ ArrowsFromVertex(Head(column)) # <<>>
          THEN dims[vertex_weights[Head(column)]] ELSE 0)
           + source_dim_of_vertices_with_arrows(Tail(column), vertex_weights, dims)

RECURSIVE source_dim(_, _, _)
\* source_dim: the dimensions of the weight components at the vertices of
\* the column that are weights of the module
source_dim(column, vertex_weights, dims) ==
    IF column = <<>> THEN 0
    ELSE (IF vertex_weights[Head(column)] \in DOMAIN dims
          THEN dims[vertex_weights[Head(column)]] ELSE 0)
           + source_dim(Tail(column), vertex_weights, dims)

RECURSIVE Ascending(_)
\* the elements of a set of numbers in increasing order
Ascending(S) ==
    IF S = {} THEN <<>>
    ELSE LET x == CHOOSE y \in S : \A z \in S : y <= z
         IN  <<x>> \o Ascending(S \ {x})

\* The rows that one (key_pairs, sign * coefficients) of output gives: one
\* row per source row of key_pairs, with its hashes and coefficients.
RowsOfOutput(merged, sign) ==
    LET idx == Ascending({t[1] : t \in merged})
    IN  [p \in DOMAIN idx |->
            [h \in {t[2] : t \in {u \in merged : u[1] = idx[p]}} |->
                sign * (CHOOSE t \in merged : t[1] = idx[p] /\ t[2] = h)[3]]]

\* The rows for one arrow a leaving w: set_pbw_action_matrix(maps[a]), then
\* compute_pbw_action on every weight component of the weight w.mu.
RowsOfArrow(comps, wcs_at, mu, a, bits) ==
    Concat([k \in DOMAIN wcs_at |->
               RowsOfOutput(Merged(Emitted(comps, ActionMatrixOf(compute_maps(mu, a)),
                                           wcs_at[k], bits)),
                            signs[a])])

\* The rows for one vertex w of the column.
RowsOfVertex(comps, wcs, vertex_weights, mu, w, bits) ==
    IF vertex_weights[w] \notin DOMAIN wcs THEN <<>>
    ELSE Concat([j \in DOMAIN ArrowsFromVertex(w) |->
                    RowsOfArrow(comps, wcs[vertex_weights[w]], mu,
                                ArrowsFromVertex(w)[j], bits)])

\* compute_differential(mu, i) for a dominant mu, column being
\* BGG.column[i] as a list: the rows of the matrix, its columns (one per
\* hash that occurs) and the dimension of the source space.
compute_differential(comps, mu, column, bits) ==
    LET rows == Concat([p \in DOMAIN column |->
                           RowsOfVertex(comps, initialize_weight_components(comps),
                                        get_vertex_weights(mu), mu, column[p], bits)])
    IN  [rows |-> rows,
         columns |-> UNION {DOMAIN rows[r] : r \in DOMAIN rows},
         source_dim |-> source_dim(column, get_vertex_weights(mu),
                                   dimensions(initialize_weight_components(comps)))]

\* cohomology_component with chain_dim taken from the second call of
\* compute_differential
cohomology_component_chain_dim_of_second(d_i, d_i_minus_1) ==
    d_i_minus_1.source_dim - Rank(d_i.rows) - Rank(d_i_minus_1.rows)

\* cohomology_component(mu, i) from the two results of compute_differential
cohomology_component(d_i, d_i_minus_1) ==
    d_i.source_dim - Rank(d_i.rows) - Rank(d_i_minus_1.rows)

\* The PBW elements handed to set_pbw_action_matrix while a column is
\* processed, in the order of the calls.
MapsSet(comps, mu, column) ==
    Concat([p \in DOMAIN column |->
               IF get_vertex_weights(mu)[column[p]] \in DOMAIN initialize_weight_components(comps)
               THEN [j \in DOMAIN ArrowsFromVertex(column[p]) |->
                        compute_maps(mu, ArrowsFromVertex(column[p])[j])]
               ELSE <<>>])

\* The cache of the module after those calls.
CacheAfter(maps) ==
    /\ action_table' = TableAfterAll(action_table, maps)
    /\ pbw_elt' = IF maps = <<>> THEN pbw_elt ELSE maps[Len(maps)]
    /\ action_matrix' = IF maps = <<>> THEN action_matrix
                        ELSE ActionMatrixOf(maps[Len(maps)])

\* The weights mu and degrees i the methods are called with.
Weights == ((0 - 1)..MaxWeight) \X ((0 - 1)..MaxWeight)
Degrees == 0..2

\* BGGCohomology(BGG, weight_module) on a BGGComplex of type A1xA1 that is
\* still to be built, and a module
DiffInit ==
    /\ m = 2
    /\ index_set = << "1", "2" >>
    /\ pc = "enumerate"
    /\ WeylDic = [k \in {""} |-> One]
    /\ word_length = 0
    /\ overwritten = {}
    /\ WeylDicReverse = <<>>
    /\ arrows = <<>>
    /\ cycles = <<>>
    /\ signs = <<>>
    /\ components \in ComponentChoices
    /\ int_bits \in {32, 64}
    /\ mpc = "constructed"
    /\ pbw_elt = <<>>
    /\ action_matrix = <<>>
    /\ action_table = stored_keys(component_dic)
    /\ weight = <<>>
    /\ hashes = <<>>
    /\ weight_comp = <<>>
    /\ emitted = {}
    /\ pbw_action = {}
    /\ dpc = "ready"
    /\ cur_mu = <<>>
    /\ cur_i = 0
    /\ last_d_i = <<>>
    /\ last_d_i_minus_1 = <<>>
    /\ cohom = 0
    /\ cohomology = <<>>
    /\ FactoryIdle
    /\ RunsIdle
    /\ BasisIdle

\* compute_differential(mu, i)
ComputeDifferential ==
    /\ pc = "signs"
    /\ dpc = "ready"
    /\ \E mu \in Weights, i \in Degrees :
         /\ cur_mu' = mu
         /\ cur_i' = i
         /\ IF ~is_dominant(mu)
            THEN /\ dpc' = "ValueError"
                 /\ UNCHANGED <<bvars, last_d_i, pbw_elt, action_matrix, action_table>>
            ELSE \E column \in Perms(BGGColumn(i)) :
                   /\ last_d_i' = compute_differential(components, mu, column, int_bits)
                   /\ \E maps \in {MapsSet(components, mu, column)} : CacheAfter(maps)
                   /\ dpc' = "differential"
    /\ UNCHANGED <<bvars, last_d_i_minus_1, cohom, cohomology, gvars, fvars, pvars, mpc, components, int_bits, weight, hashes,
                   weight_comp, emitted, pbw_action>>

\* cohomology_component(mu, i)
CohomologyComponent ==
    /\ pc = "signs"
    /\ dpc = "ready"
    /\ \E mu \in Weights, i \in Degrees :
         /\ cur_mu' = mu
         /\ cur_i' = i
         /\ IF ~is_dominant(mu)
            THEN /\ dpc' = "ValueError"
                 /\ UNCHANGED <<bvars, last_d_i, last_d_i_minus_1, cohom, pbw_elt, action_matrix, action_table>>
            ELSE \E column \in Perms(BGGColumn(i)), previous \in Perms(BGGColumn(i - 1)) :
                   \E d \in {compute_differential(components, mu, column, int_bits)},
                      e \in {compute_differential(components, mu, previous, int_bits)} :
                     /\ last_d_i' = d
                     /\ last_d_i_minus_1' = e
                     /\ cohom' = cohomology_component(d, e)
                     /\ \E maps \in { Concat([c \in {1, 2} |->
                                                 MapsSet(components, mu,
                                                         IF c = 1 THEN column ELSE previous)]) } :
                          CacheAfter(maps)
                     /\ dpc' = "cohomology"
    /\ UNCHANGED <<bvars, cohomology, gvars, fvars, pvars, mpc, components, int_bits, weight, hashes,
                   weight_comp, emitted,
                   pbw_action>>

(***************************************************************************)
(* WeightSet.compute_weights and BGGCohomology.cohomology                  *)
(***************************************************************************)
\* is_dot_regular(mu): no word of reduced_words but the first, the empty
\* word, fixes mu under the dot action
is_dot_regular(mu) == \A w \in Keys \ {""} : dot_action(WeylDic[w], mu) # mu

\* make_dominant(mu): (w.mu, w) for the word w that makes mu dominant (for
\* the full group of type A1xA1 there is one for every weight)
make_dominant(mu) ==
    LET w == CHOOSE v \in Keys : is_dominant(dot_action(WeylDic[v], mu))
    IN  << dot_action(WeylDic[w], mu), w >>

\* compute_weights(weights): the triples (dot-regular weight, associated
\* dominant, length of the word)
compute_weights(weights) ==
    { << mu, make_dominant(mu)[1], Len(make_dominant(mu)[2]) >> :
        mu \in {x \in weights : is_dot_regular(x)} }

\* self.regular_weights of BGGCohomology
regular_weights == compute_weights(DOMAIN initialize_weight_components(components))

\* the triples of length i
length_i_weights(rw, i) == {t \in rw : t[3] = i}

\* some regular weight with the dominant w_dom has length i + 1 or i - 1
HasNeighbour(rw, w_dom, i) ==
    \E t \in rw : t[2] = w_dom /\ (t[3] = i + 1 \/ t[3] = i - 1)

\* dominant_non_trivial and dominant_trivial of cohomology(i)
dominant_non_trivial(rw, i) ==
    {t[2] : t \in {u \in length_i_weights(rw, i) : HasNeighbour(rw, u[2], i)}}

dominant_trivial(rw, i) ==
    {<<t[1], t[2]>> : t \in {u \in length_i_weights(rw, i) : ~HasNeighbour(rw, u[2], i)}}

\* cohomology[w_dom] when each isolated weight overwrites the entry
TrivialMultiplicity_of_one_weight(trivial, dims, w_dom) ==
    dims[(CHOOSE q \in trivial : q[2] = w_dom)[1]]

\* cohomology[w_dom] after the loop over the isolated weights
TrivialMultiplicity(trivial, dims, w_dom) ==
    SumOver([p \in {q \in trivial : q[2] = w_dom} |-> dims[p[1]]],
            {q \in trivial : q[2] = w_dom})

\* the entries of a dict that are positive
PositiveEntries(value) == [d \in {x \in DOMAIN value : value[x] > 0} |-> value[d]]

\* the dict cohomology of cohomology(i); column and previous are
\* BGG.column[i] and BGG.column[i - 1] as lists
cohomology_dict(comps, rw, i, column, previous, bits) ==
    CHOOSE dict \in
        { PositiveEntries(value) :
            value \in
              { [d \in {p[2] : p \in dominant_trivial(rw, i)} \cup dominant_non_trivial(rw, i) |->
                   IF d \in dominant_non_trivial(rw, i)
                   THEN CHOOSE n \in
                          { cohomology_component(ds[1], ds[2]) :
                              ds \in { [c \in {1, 2} |->
                                          compute_differential(
                                              comps, d, IF c = 1 THEN column ELSE previous,
                                              bits)] } } : TRUE
                   ELSE CHOOSE n \in
                          { TrivialMultiplicity(dominant_trivial(rw, i), dims, d) :
                              dims \in {dimensions(initialize_weight_components(comps))} } :
                          TRUE] } } : TRUE

\* sorted(cohomology.items(), key=lambda t: t[-1]) up to the order of the
\* items of equal multiplicity, which is the iteration order of a dict filled
\* from a set: the list, by increasing multiplicity, of the sets of items of
\* one multiplicity
SortedByMultiplicity(items) ==
    LET mults == SortedList({x[2] : x \in items})
    IN  [k \in DOMAIN mults |-> {x \in items : x[2] = mults[k]}]

\* cohomology(i)
Cohomology ==
    /\ pc = "signs"
    /\ dpc = "ready"
    /\ \E i \in 0..2 :
         \E column \in Perms(BGGColumn(i)), previous \in Perms(BGGColumn(i - 1)) :
           \E rw \in {regular_weights} :
             \E dict \in {cohomology_dict(components, rw, i, column, previous, int_bits)} :
               /\ cur_i' = i
               /\ cohomology' = SortedByMultiplicity({<<d, dict[d]>> : d \in DOMAIN dict})
               /\ \E order \in Perms(dominant_non_trivial(rw, i)) :
                    \E maps \in
                        { Concat([k \in 1..(2 * Len(order)) |->
                                    MapsSet(components, order[(k + 1) \div 2],
                                            IF k % 2 = 1 THEN column ELSE previous)]) } :
                      CacheAfter(maps)
               /\ dpc' = "block"
    /\ UNCHANGED <<bvars, cur_mu, last_d_i, last_d_i_minus_1, cohom, gvars, fvars, pvars, mpc, components,
                   int_bits, weight, hashes, weight_comp, emitted, pbw_action>>

DiffNext ==
    \/ WeylRound \/ WeylFinish \/ ConstructBGGGraph \/ FindCycles \/ ComputeSigns
    \/ ComputeDifferential \/ CohomologyComponent \/ Cohomology

DiffSpec == DiffInit /\ [][DiffNext]_vars

(***************************************************************************)
(* Properties of the differential                                          *)
(***************************************************************************)
\* The basis of the weight space of weight w of the module: the pairs
\* (summand, row) over all direct summands.
WeightSpace(comps, w) ==
    UNION { {<<s, construct_component(comps[s])[r]>> :
               r \in {q \in DOMAIN construct_component(comps[s]) :
                         total_weight(construct_component(comps[s])[q]) = w}} :
            s \in DOMAIN comps }

RECURSIVE SetToSeq(_)
SetToSeq(S) ==
    IF S = {} THEN <<>>
    ELSE LET x == CHOOSE y \in S : TRUE IN <<x>> \o SetToSeq(S \ {x})

\* The row of the full differential for the basis element x = (summand,
\* row) at the vertex w: the entry at the basis element (w', summand, row')
\* is the sum over the arrows a: w -> w' of sign(a) times the coefficient of
\* row' in the action of maps[a] on x.
FullRow(mu, w, x) ==
    NonZero(Collect(UNION {
        { << <<a, k>>, << a[2], x[1], Concat(k) >>,
             signs[a] * LieAlgebraModule_pbw_action(compute_maps(mu, a),
                            FactorKeys(x[2], components[x[1]]), components[x[1]])[k] >> :
            k \in DOMAIN LieAlgebraModule_pbw_action(compute_maps(mu, a),
                            FactorKeys(x[2], components[x[1]]), components[x[1]]) } :
        a \in {b \in Range(arrows) : b[1] = w} }))

\* The full differential d_i: one row per basis element of every weight
\* space w.mu, w in column i.
FullDifferential(mu, i) ==
    LET sources == UNION { {<<w, x>> : x \in WeightSpace(components, dot_action(WeylDic[w], mu))} :
                           w \in {v \in Keys : Len(v) = i} }
        source_list == SetToSeq(sources)
    IN  [p \in DOMAIN source_list |-> FullRow(mu, source_list[p][1], source_list[p][2])]

\* C1: the matrix of compute_differential(mu, i) has the rank of the full
\* differential d_i.
C1_DifferentialRank ==
    dpc \in {"differential", "cohomology"} =>
        Rank(last_d_i.rows) = Rank(FullDifferential(cur_mu, cur_i))

\* D: the dimensions of the weight spaces at w.mu summed over column i
ColumnDimension(mu, i) ==
    SumOver([w \in {v \in Keys : Len(v) = i} |->
                Cardinality(WeightSpace(components, dot_action(WeylDic[w], mu)))],
            {v \in Keys : Len(v) = i})

\* C2: cohomology_component(mu, i) is D - rank(d_i) - rank(d_{i-1}), the
\* last term being 0 for i = 0.
C2_CohomologyFormula ==
    dpc = "cohomology" =>
        cohom = ColumnDimension(cur_mu, cur_i) - Rank(last_d_i.rows)
                  - (IF cur_i = 0 THEN 0 ELSE Rank(last_d_i_minus_1.rows))

\* cohomology_component was called in degree 1 and both differentials have
\* a rank that is not zero
C2_Witness ==
    /\ dpc = "cohomology"
    /\ cur_i = 1
    /\ Rank(last_d_i.rows) > 0
    /\ Rank(last_d_i_minus_1.rows) > 0

(***************************************************************************)
(* Further properties of the action of a PBW element                       *)
(***************************************************************************)
\* The identity of the PBW basis: the empty monomial with coefficient 1.
IdentityPBW == << << <<>>, 1 >> >>

\* C11: compute_pbw_action for the identity PBW element returns, for every
\* row of the weight component, exactly one entry, whose target hash is the
\* hash of the row itself and whose coefficient is 1.
C11_IdentityAction ==
    (mpc = "acted" /\ pbw_elt = IdentityPBW) =>
        \A r \in DOMAIN weight_comp[2] :
            {t \in pbw_action : t[1] = r}
                = { << r, RowHash(weight_comp[1], weight_comp[2][r]), 1 >> }

(***************************************************************************)
(* Properties of the weight decomposition                                  *)
(***************************************************************************)
\* A FastLieAlgebraCompositeModule object exists.
ModuleExists == mpc \in {"constructed", "hashed", "cached", "acted", "ValueError"}

\* The sum of the weights of the atomic entries of a row: e_j counts +1 and
\* f_j counts -1 for the simple root j.
AtomWeightSum(row) ==
    [j \in 1..2 |->
        Cardinality({c \in DOMAIN row : Factor(row[c]) = j /\ Kind(row[c]) = "e"})
          - Cardinality({c \in DOMAIN row : Factor(row[c]) = j /\ Kind(row[c]) = "f"})]

\* The places (entry k of the list of weight w, position p) at which the row
\* of summand s is listed under the weight w.
ListedAt(wcs, w, s, row) ==
    {kp \in UNION {{<<k, p>> : p \in DOMAIN wcs[w][k][2]} : k \in DOMAIN wcs[w]} :
        wcs[w][kp[1]][1] = s /\ wcs[w][kp[1]][2][kp[2]] = row}

\* The number of rows listed under the weight w.
ListedUnder(wcs, w) ==
    Cardinality(UNION {{<<k, p>> : p \in DOMAIN wcs[w][k][2]} : k \in DOMAIN wcs[w]})

\* Row number r of summand s is listed once, under the sum of the weights of
\* its entries, and under no other weight of wcs.
ListedOnce(wcs, s, row) ==
    /\ AtomWeightSum(row) \in DOMAIN wcs
    /\ \A w \in DOMAIN wcs :
         Cardinality(ListedAt(wcs, w, s, row)) = IF w = AtomWeightSum(row) THEN 1 ELSE 0

\* The statement of C12 for the basis rows (one list per summand), the
\* weight components wcs and the dimensions dims of a module.
WeightSpacesPartition(rows, wcs, dims) ==
    /\ \A s \in DOMAIN rows : \A r \in DOMAIN rows[s] : ListedOnce(wcs, s, rows[s][r])
    /\ \A w \in DOMAIN wcs : dims[w] = ListedUnder(wcs, w)
    /\ SumOver(dims, DOMAIN wcs) = SumOver([s \in DOMAIN rows |-> Len(rows[s])], DOMAIN rows)

HashedVertices(mu, i) ==
    {w \in {v \in Keys : Len(v) = i} :
        /\ WeightSpace(components, dot_action(WeylDic[w], mu)) # {}
        /\ ArrowsFromVertex(w) # <<>>}

\* Two basis elements of the set S of (summand, row) pairs share a hash.
HasConflict(S) ==
    \E x, y \in S : x # y /\ RowHash(x[1], x[2]) = RowHash(y[1], y[2])

\* C13: when the rows of a weight space that compute_differential hands to
\* get_hash contain two rows with the same hash, the call raises an error
\* and returns no matrix.
C13_ConflictRaises ==
    dpc \in {"differential", "cohomology"} =>
        \A w \in HashedVertices(cur_mu, cur_i) :
            ~HasConflict(WeightSpace(components, dot_action(WeylDic[w], cur_mu)))

(***************************************************************************)
(* The factory and a caller of build_component                             *)
(***************************************************************************)
\* The names handed to build_component: the keys of module_dic, 'b' (a key
\* of self.basis only) and a name the factory does not know.
SubalgebraNames == {"g", "n", "u", "p", "b", "q"}
ActionTypes == {"ad", "coad", "adjoint"}
\* subset: lists of indices of simple roots
Subsets == { <<>>, <<1>>, <<2>>, <<1, 2>> }

\* FastModuleFactory(lie_algebra), nothing built yet
FactoryInit ==
    /\ fpc = "ready"
    /\ build_args = <<>>
    /\ build_result = <<>>
    /\ GraphIdle
    /\ ModuleIdle
    /\ DiffIdle
    /\ RunsIdle
    /\ BasisIdle

\* build_component(subalgebra, action_type, subset, acting_lie_algebra)
BuildComponent ==
    /\ fpc \in {"ready", "built", "ValueError"}
    /\ \E subalgebra \in SubalgebraNames, action_type \in ActionTypes,
          subset \in Subsets, acting_lie_algebra \in SubalgebraNames :
         \E res \in {build_component(subalgebra, action_type, subset, acting_lie_algebra)} :
           /\ build_args' = [subalgebra |-> subalgebra, action_type |-> action_type,
                             subset |-> subset, acting_lie_algebra |-> acting_lie_algebra]
           /\ build_result' = res
           /\ fpc' = IF res.error # "" THEN "ValueError" ELSE "built"
    /\ UNCHANGED <<bvars, gvars, mvars, dvars, pvars>>

FactoryNext == BuildComponent

FactorySpec == FactoryInit /\ [][FactoryNext]_vars

(***************************************************************************)
(* Properties of the factory                                               *)
(***************************************************************************)
\* build_component was called with names it knows and the adjoint action.
AdjointCall ==
    /\ fpc \in {"built", "ValueError"}
    /\ build_args.subalgebra \in {"g", "n", "u", "p"}
    /\ build_args.acting_lie_algebra \in {"g", "n", "u", "p"}
    /\ build_args.action_type = "ad"

\* Some bracket [i, j], i in the acting subalgebra and j in the module, has
\* a component that is not zero on an index outside the module.
LeavesModule(lie_algebra, module) ==
    \E i \in Range(lie_algebra), j \in Range(module) :
        \E k \in DOMAIN Bracket(i, j) : Bracket(i, j)[k] # 0 /\ k \notin Range(module)

\* C14: the closure error is raised, and no action table returned, exactly
\* when some bracket leaves the module; a table that is returned has all its
\* target indices in the module.
C14_ClosureError ==
    AdjointCall =>
        /\ (fpc = "ValueError")
             <=> LeavesModule(module_dic(build_args.subset)[build_args.acting_lie_algebra],
                              module_dic(build_args.subset)[build_args.subalgebra])
        /\ fpc = "ValueError" =>
             /\ build_result.error = "The module is not closed under the adjoint action"
             /\ build_result.action = EmptyDict
        /\ fpc = "built" =>
             \A p \in DOMAIN build_result.action :
                 DOMAIN build_result.action[p] \subseteq Range(build_result.basis)

\* The closure error was raised for a parabolic p acted on by a parabolic u.
C14_Witness ==
    /\ AdjointCall
    /\ fpc = "ValueError"
    /\ build_args.subalgebra = "p"
    /\ build_args.acting_lie_algebra = "u"

\* The names build_component recognises (the keys of module_dic) and the
\* action types it recognises.
RecognisedNames == {"g", "n", "u", "p"}
RecognisedActions == {"ad", "coad"}

\* C16: build_component raises ValueError and returns no component when the
\* subalgebra, the acting subalgebra or the action type is not recognised.
C16_UnknownNamesRaise ==
    (/\ fpc \in {"built", "ValueError"}
     /\ \/ build_args.subalgebra \notin RecognisedNames
        \/ build_args.acting_lie_algebra \notin RecognisedNames
        \/ build_args.action_type \notin RecognisedActions)
      => /\ fpc = "ValueError"
         /\ build_result.error # ""
         /\ build_result.basis = <<>>
         /\ build_result.action = EmptyDict

\* build_component was called with known subalgebras and an unknown type of
\* action, and raised
C16_Witness ==
    /\ fpc = "ValueError"
    /\ build_args.subalgebra \in RecognisedNames
    /\ build_args.acting_lie_algebra \in RecognisedNames
    /\ build_args.action_type \notin RecognisedActions
    /\ build_result.error = "not a valid type of action"

(***************************************************************************)
(* Unrecognised tensor types                                               *)
(***************************************************************************)
\* Every (component, power, kind) triple of comps has a recognised kind.
KindsRecognised(comps) ==
    \A i \in DOMAIN comps : \A j \in DOMAIN comps[i] :
        comps[i][j].tensor_type \in {"sym", "wedge"}

\* C15: a descriptor whose kind is not recognised is rejected when the
\* module is built, whatever its power: compute_pbw_action is never run on
\* a module that carries an unrecognised kind.
C15_UnknownKindRejected ==
    mpc \in {"acted", "ValueError"} => KindsRecognised(components)

(***************************************************************************)
(* The signs of exterior slots                                             *)
(***************************************************************************)
\* For a contribution e of the last call of compute_pbw_action: the slice
\* (tensor type, sub column, start, end) of its column, the entries of the
\* row in the other columns of the same block, and the coefficient of the
\* cached action matrix that it was made from.
SliceOf(e) == SliceList(components[weight_comp[1]], 0)[e.column]

OtherEntries(e) ==
    {weight_comp[2][e.row][c] : c \in ((SliceOf(e)[3] + 1)..SliceOf(e)[4]) \ {e.column}}

OtherColumns(e) == ((SliceOf(e)[3] + 1)..SliceOf(e)[4]) \ {e.column}

RawCoefficient(e) ==
    LET am == action_matrix[TypeList(components[weight_comp[1]])[e.column]]
    IN  am[CHOOSE p \in DOMAIN am : am[p][1] = e.old][2][e.new]

\* The number of other entries of the block that are smaller than new-index.
SmallerEntries(e) ==
    Cardinality({c \in OtherColumns(e) : weight_comp[2][e.row][c] < e.new})

\* The contributions of exterior slots whose new index is already among the
\* other entries of the block, and those where it is not.
Collapsing == {e \in emitted : SliceOf(e)[1] = "wedge" /\ e.new \in OtherEntries(e)}
NonCollapsing == {e \in emitted : SliceOf(e)[1] = "wedge" /\ e.new \notin OtherEntries(e)}

\* C17: a contribution of an exterior slot whose new index duplicates
\* another entry of the block has coefficient 0, and the row has no entry
\* for that target in the output.
C17_ExteriorCollapse ==
    mpc = "acted" =>
        \A e \in Collapsing :
            /\ e.coef = 0
            /\ ~\E t \in pbw_action : t[1] = e.row /\ t[2] = e.hash

\* compute_pbw_action met a collapsing contribution whose raw coefficient
\* is not zero, next to contributions that survive
C17_Witness ==
    /\ mpc = "acted"
    /\ \E e \in Collapsing : RawCoefficient(e) # 0
    /\ pbw_action # {}

\* C18 as stated: for an exterior slot whose new index duplicates no other
\* entry of the block, the raw coefficient is multiplied by +1 when the
\* number of smaller other entries is even and by -1 when it is odd,
\* wherever the slot is in the block.
C18_SignByCount ==
    mpc = "acted" =>
        \A e \in NonCollapsing :
            e.coef = RawCoefficient(e) * (IF SmallerEntries(e) % 2 = 0 THEN 1 ELSE 0 - 1)

\* C18 amended: the factor is +1 when the position of the slot in its block
\* (counted from 0) plus the number of smaller other entries is even, and -1
\* when that sum is odd.
C18_SignByCountAndPosition ==
    mpc = "acted" =>
        \A e \in NonCollapsing :
            e.coef = RawCoefficient(e)
                       * (IF (SliceOf(e)[2] + SmallerEntries(e)) % 2 = 0 THEN 1 ELSE 0 - 1)

\* compute_pbw_action acted on the second slot of an exterior block with a
\* new index that is smaller than the first entry
C18_Witness ==
    /\ mpc = "acted"
    /\ \E e \in NonCollapsing :
         /\ SliceOf(e)[2] = 1
         /\ SmallerEntries(e) = 0
         /\ RawCoefficient(e) # 0

(***************************************************************************)
(* Isolated dominant weights in cohomology(i)                              *)
(***************************************************************************)
\* The multiplicity cohomology(i) reports for the dominant weight d (0 when
\* d is not listed).
Reported(d) ==
    LET hits == UNION {{x \in cohomology[k] : x[1] = d} : k \in DOMAIN cohomology}
    IN  IF hits = {} THEN 0 ELSE (CHOOSE x \in hits : TRUE)[2]

\* The dominant weights isolated at degree i: a regular weight of length i
\* has this associate, none of length i - 1 or i + 1 has.
IsolatedDominants(rw, i) ==
    {t[2] : t \in {u \in rw : u[3] = i /\ \A v \in rw : v[2] = u[2] => v[3] \notin {i - 1, i + 1}}}

\* The total dimension of the weight spaces of the length-i weights with the
\* dominant associate d.
TotalDimension(rw, dims, d, i) ==
    SumOver([t \in {u \in rw : u[2] = d /\ u[3] = i} |-> dims[t[1]]],
            {u \in rw : u[2] = d /\ u[3] = i})

IsolatedReported(rw, dims, i) ==
    /\ \A d \in IsolatedDominants(rw, i) :
         /\ Reported(d) = TotalDimension(rw, dims, d, i)
         /\ \A column \in Perms(BGGColumn(i)), previous \in Perms(BGGColumn(i - 1)) :
              cohomology_component(compute_differential(components, d, column, int_bits),
                                   compute_differential(components, d, previous, int_bits))
                = TotalDimension(rw, dims, d, i)
    /\ (\A t \in rw : t[3] = i => t[2] \in IsolatedDominants(rw, i)) => pbw_elt = <<>>

\* C19: after cohomology(i), every dominant weight isolated at degree i is
\* reported with the total dimension of the weight spaces of the length-i
\* weights with that associate, this is the value of cohomology_component
\* for that weight and degree, and when all weights of length i are isolated
\* no PBW element was handed to the module.
C19_IsolatedWeights ==
    dpc = "block" =>
        IsolatedReported(regular_weights,
                         dimensions(initialize_weight_components(components)), cur_i)

\* cohomology(1) on the module n: the dominant weight 0 is isolated, two
\* weights of length 1 have it as associate, and it is reported with 2.
C19_Witness ==
    /\ dpc = "block"
    /\ cur_i = 1
    /\ components = << << Descriptor("n", 1, "wedge") >> >>
    /\ IsolatedDominants(regular_weights, 1) = { <<0, 0>> }
    /\ Cardinality({u \in regular_weights : u[2] = <<0, 0>> /\ u[3] = 1}) = 2
    /\ Reported(<<0, 0>>) = 2

(***************************************************************************)
(* The degenerate cases of compute_differential                            *)
(***************************************************************************)
\* Column i has no outgoing arrow.
NoOutgoingArrows(i) == \A w \in BGGColumn(i) : ArrowsFromVertex(w) = <<>>

\* No weight w.mu, w in column i, is a weight of the module.
SourceWeightsAbsent(wcs, mu, i) ==
    \A w \in BGGColumn(i) : get_vertex_weights(mu)[w] \notin DOMAIN wcs

\* compute_pbw_action returns no row for every arrow leaving column i and
\* every weight component of its source weight.
ActionsZero(comps, wcs, mu, i, bits) ==
    \A w \in BGGColumn(i) :
        get_vertex_weights(mu)[w] \in DOMAIN wcs =>
            \A j \in DOMAIN ArrowsFromVertex(w),
               k \in DOMAIN wcs[get_vertex_weights(mu)[w]] :
                Merged(Emitted(comps, ActionMatrixOf(compute_maps(mu, ArrowsFromVertex(w)[j])),
                               wcs[get_vertex_weights(mu)[w]][k], bits)) = {}

Degenerate(comps, wcs, mu, i, bits) ==
    \/ NoOutgoingArrows(i)
    \/ SourceWeightsAbsent(wcs, mu, i)
    \/ ActionsZero(comps, wcs, mu, i, bits)

\* C20: compute_differential(mu, i) for a dominant mu returns, when column i
\* has no outgoing arrow, or no source weight is a weight of the module, or
\* every PBW action is zero, a matrix without rows and columns, of rank 0,
\* with the source dimension D of column i, and raises nothing;
\* cohomology_component is then D - rank(d_{i-1}).
C20_DegenerateDifferential ==
    (/\ pc = "signs"
     /\ dpc \in {"differential", "cohomology"}
     /\ Degenerate(components, initialize_weight_components(components), cur_mu, cur_i,
                   int_bits))
    => /\ last_d_i.rows = <<>>
       /\ last_d_i.columns = {}
       /\ Rank(last_d_i.rows) = 0
       /\ last_d_i.source_dim = ColumnDimension(cur_mu, cur_i)
       /\ dpc = "cohomology" =>
             cohom = ColumnDimension(cur_mu, cur_i) - Rank(last_d_i_minus_1.rows)

\* cohomology_component in the top degree, on a weight space that is not
\* empty and with a differential d_1 that is not zero
C20_Witness ==
    /\ dpc = "cohomology"
    /\ cur_i = 2
    /\ NoOutgoingArrows(2)
    /\ last_d_i.rows = <<>>
    /\ last_d_i.source_dim > 0
    /\ Rank(last_d_i_minus_1.rows) > 0
    /\ cohom = last_d_i.source_dim - Rank(last_d_i_minus_1.rows)

\* compute_differential where the source weights are in the module and
\* every PBW action on them is zero
C20_ZeroActions ==
    /\ dpc = "differential"
    /\ ~NoOutgoingArrows(cur_i)
    /\ ~SourceWeightsAbsent(initialize_weight_components(components), cur_mu, cur_i)
    /\ ActionsZero(components, initialize_weight_components(components), cur_mu, cur_i,
                   int_bits)
    /\ last_d_i.source_dim > 0

\* compute_differential where column i has arrows and no source weight is a
\* weight of the module
C20_AbsentWeights ==
    /\ dpc = "differential"
    /\ ~NoOutgoingArrows(cur_i)
    /\ SourceWeightsAbsent(initialize_weight_components(components), cur_mu, cur_i)

(***************************************************************************)
(* The action table of the components                                      *)
(***************************************************************************)
\* C28: reading the action table does not change it: after the calls of
\* set_pbw_action_matrix (which calls pbw_action_matrix and action_on_vector
\* of every component) the table of every component holds the keys it held
\* after construction, the pairs (generator, basis index) whose action is
\* not zero.
C28_TableUnchanged ==
    mpc \in {"cached", "acted"} =>
        /\ action_table = stored_keys(component_dic)
        /\ \A k \in DOMAIN action_table : \A p \in action_table[k] :
              ActionAt(component_dic[k].action, p[1], p[2]) # EmptyDict

(***************************************************************************)
(* Two callers of compute_differential on one module                       *)
(***************************************************************************)
\* The modules the two callers share.
ParChoices ==
    { << << Descriptor("g", 1, "wedge") >> >>,
      << << Descriptor("b", 2, "wedge") >> >> }

\* The calls of the module that compute_differential(mu, i) makes for the
\* vertex w of the column, in order: set_pbw_action_matrix(maps[a]) for every
\* arrow a leaving w, each followed by compute_pbw_action on every weight
\* component of the weight w.mu.
StepsOfVertex(wcs, vertex_weights, w) ==
    IF vertex_weights[w] \notin DOMAIN wcs THEN <<>>
    ELSE Concat([j \in DOMAIN ArrowsFromVertex(w) |->
                    << << "set_pbw_action_matrix", ArrowsFromVertex(w)[j], 0 >> >>
                      \o [k \in DOMAIN wcs[vertex_weights[w]] |->
                            << "compute_pbw_action", ArrowsFromVertex(w)[j], k >>]])

StepsOf(comps, mu, column) ==
    Concat([p \in DOMAIN column |->
               StepsOfVertex(initialize_weight_components(comps), get_vertex_weights(mu),
                             column[p])])

\* One caller at the start of compute_differential(mu, i).
Run(comps, mu, i, column) ==
    [mu |-> mu, i |-> i, column |-> column, steps |-> StepsOf(comps, mu, column),
     output |-> <<>>]

\* BGGCohomology(BGG, weight_module) with two callers that have not started
ParInit ==
    /\ m = 2
    /\ index_set = << "1", "2" >>
    /\ pc = "enumerate"
    /\ WeylDic = [k \in {""} |-> One]
    /\ word_length = 0
    /\ overwritten = {}
    /\ WeylDicReverse = <<>>
    /\ arrows = <<>>
    /\ cycles = <<>>
    /\ signs = <<>>
    /\ components \in ParChoices
    /\ int_bits \in {32, 64}
    /\ mpc = "constructed"
    /\ pbw_elt = <<>>
    /\ action_matrix = <<>>
    /\ action_table = stored_keys(component_dic)
    /\ weight = <<>>
    /\ hashes = <<>>
    /\ weight_comp = <<>>
    /\ emitted = {}
    /\ pbw_action = {}
    /\ dpc = "ready"
    /\ cur_mu = <<>>
    /\ cur_i = 0
    /\ last_d_i = <<>>
    /\ last_d_i_minus_1 = <<>>
    /\ cohom = 0
    /\ cohomology = <<>>
    /\ FactoryIdle
    /\ RunsIdle
    /\ BasisIdle

\* Two callers start compute_differential for two different pairs (mu, i).
StartRuns ==
    /\ pc = "signs"
    /\ dpc = "ready"
    /\ \E mu1 \in {x \in Weights : is_dominant(x)}, mu2 \in {x \in Weights : is_dominant(x)},
          i1 \in Degrees, i2 \in Degrees :
         /\ <<mu1, i1>> # <<mu2, i2>>
         /\ \E column1 \in Perms(BGGColumn(i1)), column2 \in Perms(BGGColumn(i2)) :
              runs' = << Run(components, mu1, i1, column1), Run(components, mu2, i2, column2) >>
    /\ dpc' = "running"
    /\ UNCHANGED <<bvars, cur_mu, cur_i, last_d_i, last_d_i_minus_1, cohom, cohomology, gvars, mvars,
                   fvars>>

\* The next step of caller r is self.weight_module.set_pbw_action_matrix(maps[a]).
RunSetPbwActionMatrix(r) ==
    /\ dpc = "running"
    /\ runs[r].steps # <<>>
    /\ Head(runs[r].steps)[1] = "set_pbw_action_matrix"
    /\ \E elt \in {compute_maps(runs[r].mu, Head(runs[r].steps)[2])} :
         /\ pbw_elt' = elt
         /\ action_matrix' = ActionMatrixOf(elt)
         /\ action_table' = TableAfter(action_table, elt)
    /\ runs' = [runs EXCEPT ![r].steps = Tail(@)]
    /\ UNCHANGED <<bvars, mpc, components, int_bits, weight, hashes, weight_comp, emitted, pbw_action,
                   gvars, dvars, fvars>>

\* The next step of caller r is self.weight_module.compute_pbw_action(weight_comp),
\* which reads the action_matrix the module holds at that moment.
RunComputePbwAction(r) ==
    /\ dpc = "running"
    /\ runs[r].steps # <<>>
    /\ Head(runs[r].steps)[1] = "compute_pbw_action"
    /\ \E a \in {Head(runs[r].steps)[2]} :
         \E wc \in {initialize_weight_components(components)
                       [get_vertex_weights(runs[r].mu)[a[1]]][Head(runs[r].steps)[3]]} :
           runs' = [runs EXCEPT
                      ![r].steps = Tail(@),
                      ![r].output = @ \o RowsOfOutput(
                                            Merged(Emitted(components, action_matrix, wc,
                                                           int_bits)),
                                            signs[a])]
    /\ UNCHANGED <<bvars, gvars, mvars, dvars, fvars>>

ParNext ==
    \/ WeylRound \/ WeylFinish \/ ConstructBGGGraph \/ FindCycles \/ ComputeSigns
    \/ StartRuns
    \/ \E r \in {1, 2} : RunSetPbwActionMatrix(r)
    \/ \E r \in {1, 2} : RunComputePbwAction(r)

ParSpec == ParInit /\ [][ParNext]_vars

\* C21: for every interleaving of the steps of the two callers, each caller
\* ends with the rows (hashes and coefficients, in order) that
\* compute_differential returns for its pair (mu, i) when it runs alone.
C21_RunsIndependent ==
    dpc = "running" =>
        \A r \in DOMAIN runs :
            runs[r].steps = <<>> =>
                runs[r].output
                  = compute_differential(components, runs[r].mu, runs[r].column, int_bits).rows

(***************************************************************************)
(* The parabolic bases of a FastModuleFactory, for several Lie algebras    *)
(***************************************************************************)
\* The types of the Lie algebras the factory is built for.
CartanTypes == {"A1xA1", "A2", "B2", "G2", "A3"}

\* self.e_roots: the positive roots of the root lattice, each as its
\* coefficients in the simple roots (r.monomial_coefficients() holds the
\* non-zero ones)
e_roots(type) ==
    CASE type = "A1xA1" -> << <<1, 0>>, <<0, 1>> >>
      [] type = "A2" -> << <<1, 0>>, <<0, 1>>, <<1, 1>> >>
      [] type = "B2" -> << <<1, 0>>, <<0, 1>>, <<1, 1>>, <<1, 2>> >>
      [] type = "G2" -> << <<1, 0>>, <<0, 1>>, <<1, 1>>, <<2, 1>>, <<3, 1>>, <<3, 2>> >>
      [] type = "A3" -> << <<1, 0, 0>>, <<0, 1, 0>>, <<0, 0, 1>>, <<1, 1, 0>>, <<0, 1, 1>>,
                           <<1, 1, 1>> >>

\* self.rank
rank(type) == Len(e_roots(type)[1])

\* set(r.monomial_coefficients().keys()): the simple roots r is supported on;
\* the negative root -r has the support of r
RootSupport(r) == {j \in DOMAIN r : r[j] # 0}

\* root_to_index: the k-th positive root, the k-th negative root and the j-th
\* coroot, numbered as e1, e2, f1, f2, h1, h2 are for type A1xA1
e_index(type, k) == k - 1
f_index(type, k) == Len(e_roots(type)) + k - 1
h_index(type, j) == 2 * Len(e_roots(type)) + j - 1

\* self.basis['b']: the negative roots and the Cartan
b_basis(type) ==
    {f_index(type, k) : k \in DOMAIN e_roots(type)}
        \cup {h_index(type, j) : j \in 1..rank(type)}

\* issubset(subset) of the support of the k-th positive (or negative) root
InSpan(type, k, subset) == RootSupport(e_roots(type)[k]) \subseteq Range(subset)

\* parabolic_p_basis(subset) of the factory of the given type
p_basis(type, subset) ==
    SortedList(b_basis(type)
                 \cup {e_index(type, k) : k \in {x \in DOMAIN e_roots(type) :
                                                    InSpan(type, x, subset)}})

\* parabolic_n_basis(subset) of the factory of the given type
n_basis(type, subset) ==
    SortedList({f_index(type, k) : k \in {x \in DOMAIN e_roots(type) :
                                             ~InSpan(type, x, subset)}})

\* parabolic_u_basis(subset) where the roots kept are the ones supported
\* outside subset
u_basis_outside_subset(type, subset) ==
    SortedList({e_index(type, k) : k \in {x \in DOMAIN e_roots(type) :
                   RootSupport(e_roots(type)[x]) \cap Range(subset) = {}}})

\* parabolic_u_basis(subset) of the factory of the given type
u_basis(type, subset) ==
    SortedList({e_index(type, k) : k \in {x \in DOMAIN e_roots(type) :
                                             ~InSpan(type, x, subset)}})

\* subset: a list of simple roots, in any order
SubsetLists(type) == UNION {Perms(S) : S \in SUBSET (1..rank(type))}

\* FastModuleFactory(lie_algebra) for a Lie algebra of one of the types
BasisInit ==
    /\ cartan_type \in CartanTypes
    /\ basis_call = <<>>
    /\ basis_result = <<>>
    /\ GraphIdle
    /\ ModuleIdle
    /\ DiffIdle
    /\ FactoryIdle
    /\ RunsIdle

\* parabolic_p_basis(subset)
ParabolicPBasis ==
    /\ \E subset \in SubsetLists(cartan_type) :
         /\ basis_call' = <<"p", subset>>
         /\ basis_result' = p_basis(cartan_type, subset)
    /\ UNCHANGED <<cartan_type, gvars, mvars, dvars, fvars, pvars>>

\* parabolic_n_basis(subset)
ParabolicNBasis ==
    /\ \E subset \in SubsetLists(cartan_type) :
         /\ basis_call' = <<"n", subset>>
         /\ basis_result' = n_basis(cartan_type, subset)
    /\ UNCHANGED <<cartan_type, gvars, mvars, dvars, fvars, pvars>>

\* parabolic_u_basis(subset)
ParabolicUBasis ==
    /\ \E subset \in SubsetLists(cartan_type) :
         /\ basis_call' = <<"u", subset>>
         /\ basis_result' = u_basis(cartan_type, subset)
    /\ UNCHANGED <<cartan_type, gvars, mvars, dvars, fvars, pvars>>

BasisNext == ParabolicPBasis \/ ParabolicNBasis \/ ParabolicUBasis

BasisSpec == BasisInit /\ [][BasisNext]_vars

\* The positive roots supported entirely outside / entirely inside subset,
\* and the ones supported partly inside and partly outside.
OutsideRoots(type, subset) ==
    {k \in DOMAIN e_roots(type) : RootSupport(e_roots(type)[k]) \cap Range(subset) = {}}

InsideRoots(type, subset) ==
    {k \in DOMAIN e_roots(type) : RootSupport(e_roots(type)[k]) \subseteq Range(subset)}

MixedRoots(type, subset) ==
    DOMAIN e_roots(type) \ (OutsideRoots(type, subset) \cup InsideRoots(type, subset))

\* C22 (as stated): after a call of parabolic_n_basis (parabolic_u_basis) the
\* list holds exactly the negative (positive) roots supported entirely
\* outside the subset, after parabolic_p_basis the Borel basis and exactly
\* the positive roots supported entirely inside it, and a root supported
\* partly inside and partly outside is in none of the n/u lists.
C22_SupportOutside ==
    basis_call # <<>> =>
        LET subset == basis_call[2]
            out    == OutsideRoots(cartan_type, subset)
        IN  /\ basis_call[1] = "n" =>
                Range(basis_result) = {f_index(cartan_type, k) : k \in out}
            /\ basis_call[1] = "u" =>
                Range(basis_result) = {e_index(cartan_type, k) : k \in out}
            /\ basis_call[1] = "p" =>
                Range(basis_result)
                  = b_basis(cartan_type)
                      \cup {e_index(cartan_type, k) : k \in InsideRoots(cartan_type, subset)}

\* C22 (amended): the n (u) list holds exactly the negative (positive) roots
\* whose support is not entirely inside the subset, so a root supported
\* partly inside and partly outside is in the n (u) list as the roots
\* supported entirely outside are; the p list holds the Borel basis and
\* exactly the positive roots supported entirely inside the subset.
C22_SupportNotInside ==
    basis_call # <<>> =>
        LET subset == basis_call[2]
            kept   == OutsideRoots(cartan_type, subset) \cup MixedRoots(cartan_type, subset)
        IN  /\ basis_call[1] = "n" =>
                Range(basis_result) = {f_index(cartan_type, k) : k \in kept}
            /\ basis_call[1] = "u" =>
                Range(basis_result) = {e_index(cartan_type, k) : k \in kept}
            /\ basis_call[1] = "p" =>
                Range(basis_result)
                  = b_basis(cartan_type)
                      \cup {e_index(cartan_type, k) : k \in InsideRoots(cartan_type, subset)}

\* parabolic_u_basis([1]) for type A2 returned a list with the root
\* alpha_1 + alpha_2, which is supported partly inside the subset
C22_Witness ==
    /\ cartan_type = "A2"
    /\ basis_call = <<"u", <<1>> >>
    /\ MixedRoots(cartan_type, basis_call[2]) = {3}
    /\ e_index(cartan_type, 3) \in Range(basis_result)

\* The largest Coxeter length of an element of W = I2(m).
MaximalLength(order) == Maximum({CoxeterLength(g, order) : g \in Elements(order)})

\* The round of the while loop for the current word length finds an element
\* that is not among the values yet.
RoundAddsElement ==
    \E w \in {s \in Keys : Len(s) = word_length}, i \in DOMAIN index_set :
        Mult(SimpleReflections(m)[i], WeylDic[w], m) \notin Values

\* C23: the enumeration loop of _compute_weyl_dictionary terminates, for every
\* index set of labels: while fewer elements than the group order are
\* enumerated the round for the current word length adds a new element, the
\* loop runs at most (maximal length + 1) rounds, and it ends with the count
\* equal to the group order.
C23_LoopTerminates ==
    /\ (pc = "enumerate" /\ Cardinality(Keys) < Order(m)) => RoundAddsElement
    /\ word_length <= MaximalLength(m) + 1
    /\ pc # "enumerate" => Cardinality(Keys) = Order(m)

RECURSIVE WeightedTotal(_, _, _)
\* The sum over the monomials of pbw_elt of (coefficient) times the image of
\* the basis index b under the ordered product of the monomial's generators.
WeightedTotal(pbw, b, action) ==
    IF pbw = <<>> THEN EmptyDict
    ELSE LET image == ApplyWord(Head(pbw)[1], (b :> 1), action)
         IN  add_dicts(WeightedTotal(Tail(pbw), b, action),
                       [k \in DOMAIN image |-> Head(pbw)[2] * image[k]])

\* C24: the matrix pbw_action_matrix returns respects the coefficients of the
\* PBW element: for every component and every basis index, the cached row is
\* the sum over the monomials of (coefficient) times the image under the
\* monomial, without the zero entries.
C24_CoefficientsRespected ==
    mpc = "cached" =>
        \A key \in DOMAIN action_matrix :
            \A p \in DOMAIN action_matrix[key] :
                action_matrix[key][p][2]
                  = NonZero(WeightedTotal(pbw_elt, action_matrix[key][p][1],
                                          component_dic[key].action))

\* The block of a contribution e as the tuple it is before sorting: the
\* entries of the row in the columns of the block, the entry at the acted-on
\* position replaced by new-index.
UnsortedBlock(e) ==
    [c \in 1..(SliceOf(e)[4] - SliceOf(e)[3]) |->
        IF SliceOf(e)[3] + c = e.column THEN e.new
        ELSE weight_comp[2][e.row][SliceOf(e)[3] + c]]

\* Every row of the weight component is strictly increasing inside an
\* exterior block and non-decreasing inside a symmetric block.
BlocksSorted ==
    \A r \in DOMAIN weight_comp[2] :
        \A c \in DOMAIN weight_comp[2][r] :
            LET slice == SliceList(components[weight_comp[1]], 0)[c]
            IN  slice[2] > 0 =>
                    IF slice[1] = "wedge"
                    THEN weight_comp[2][r][c - 1] < weight_comp[2][r][c]
                    ELSE weight_comp[2][r][c - 1] <= weight_comp[2][r][c]

\* C25: in compute_pbw_action, for an exterior slot whose new-index duplicates
\* no other entry of the block, the coefficient is the raw coefficient times
\* the sign of the permutation that sorts the block after the acted-on entry
\* was replaced by new-index, the value AlternatingProduct.parity() gives for
\* that unsorted tuple; the rows of the weight component are sorted inside
\* every block, strictly for exterior blocks.
C25_SignIsParity ==
    mpc = "acted" =>
        /\ BlocksSorted
        /\ \A e \in NonCollapsing :
               e.coef = RawCoefficient(e) * parity(UnsortedBlock(e))

\* compute_pbw_action replaced an entry of an exterior block by a new index
\* that has to move past another entry when the block is sorted
C25_Witness ==
    /\ mpc = "acted"
    /\ \E e \in NonCollapsing :
         /\ parity(UnsortedBlock(e)) = 0 - 1
         /\ UnsortedBlock(e) # Sorted(UnsortedBlock(e))
         /\ RawCoefficient(e) # 0

\* The contributions of the last call of compute_pbw_action for the source
\* row r and the target hash h, and the sum of their coefficients.
ContributionsFor(r, h) == {e \in emitted : e.row = r /\ e.hash = h}

NetCoefficient(r, h) ==
    SumOver([e \in ContributionsFor(r, h) |-> e.coef], ContributionsFor(r, h))

\* C26: the output of compute_pbw_action has each (source row, target hash)
\* pair at most once, with the sum of all the contributions for the pair as
\* its coefficient, and no zero coefficient: a pair is in the output exactly
\* when the sum of its contributions is not zero.
C26_MergedOutput ==
    mpc = "acted" =>
        /\ \A t1, t2 \in pbw_action : (t1[1] = t2[1] /\ t1[2] = t2[2]) => t1 = t2
        /\ \A t \in pbw_action : t[3] = NetCoefficient(t[1], t[2]) /\ t[3] # 0
        /\ \A e \in emitted :
               NetCoefficient(e.row, e.hash) # 0
                 => \E t \in pbw_action : t[1] = e.row /\ t[2] = e.hash

\* compute_pbw_action merged two contributions into one entry of the output
\* and left out a pair whose contributions add up to zero
C26_Witness ==
    /\ mpc = "acted"
    /\ \E t \in pbw_action : Cardinality(ContributionsFor(t[1], t[2])) >= 2
    /\ \E e \in emitted :
         /\ NetCoefficient(e.row, e.hash) = 0
         /\ ~\E t \in pbw_action : t[1] = e.row /\ t[2] = e.hash

\* build_component was called with names it knows and the coadjoint action.
CoadjointCall ==
    /\ fpc \in {"built", "ValueError"}
    /\ build_args.subalgebra \in RecognisedNames
    /\ build_args.acting_lie_algebra \in RecognisedNames
    /\ build_args.action_type = "coad"

\* The acting subalgebra and the module of the last call of build_component.
ActingBasis == Range(module_dic(build_args.subset)[build_args.acting_lie_algebra])
ModuleBasis == Range(module_dic(build_args.subset)[build_args.subalgebra])

\* C27: the table coadjoint_action_tensor returns stays inside the module:
\* for every stored key (i, j) with value {k: c}, i is in the acting
\* subalgebra, j and k are in the module, c is not zero and is minus the
\* coefficient of dual(j) in the bracket [i, dual(k)]; no closure error is
\* raised.
C27_CoadjointInsideModule ==
    CoadjointCall =>
        /\ fpc = "built"
        /\ build_result.error = ""
        /\ \A p \in DOMAIN build_result.action :
             /\ p[1] \in ActingBasis
             /\ p[2] \in ModuleBasis
             /\ \A k \in DOMAIN build_result.action[p] :
                  /\ k \in ModuleBasis
                  /\ build_result.action[p][k] # 0
                  /\ dual_root_dict[p[2]] \in DOMAIN Bracket(p[1], dual_root_dict[k])
                  /\ build_result.action[p][k]
                       = 0 - Bracket(p[1], dual_root_dict[k])[dual_root_dict[p[2]]]

\* The coadjoint table of a module was built, it has entries, and a bracket
\* [i, dual(k)] has a monomial whose dual is outside the module and got no
\* entry
C27_Witness ==
    /\ CoadjointCall
    /\ fpc = "built"
    /\ DOMAIN build_result.action # {}
    /\ \E i \in ActingBasis, k \in ModuleBasis :
         \E mono \in DOMAIN Bracket(i, dual_root_dict[k]) :
            /\ dual_root_dict[mono] \notin ModuleBasis
            /\ <<i, dual_root_dict[mono]>> \notin DOMAIN build_result.action

\* The row with the entries of every symmetric or exterior block sorted: the
\* canonical basis row of the same element (up to sign).
Canonical(row, slice_list) ==
    [c \in DOMAIN row |->
        Sorted(SubSeq(row, slice_list[c][3] + 1, slice_list[c][4]))[slice_list[c][2] + 1]]

\* The row with the entries of the columns c1 and c2 exchanged.
Exchanged(row, c1, c2) == [row EXCEPT ![c1] = row[c2], ![c2] = row[c1]]

\* The image row of a contribution e before it is sorted.
ImageRow(e) == [weight_comp[2][e.row] EXCEPT ![e.column] = e.new]

\* C29: the hash of a row does not depend on the order of the entries inside
\* a symmetric or exterior block: exchanging two entries of one block leaves
\* get_hash unchanged, and the hash compute_pbw_action computes incrementally
\* for an unsorted image row is the hash get_hash gives for the sorted
\* canonical row of that image.
C29_HashIgnoresOrderInBlock ==
    mpc = "acted" =>
        LET slice_list == SliceList(components[weight_comp[1]], 0)
        IN  /\ \A r \in DOMAIN weight_comp[2] :
                 \A c1, c2 \in DOMAIN slice_list :
                     slice_list[c1][3] = slice_list[c2][3]
                       => RowHash(weight_comp[1], Exchanged(weight_comp[2][r], c1, c2))
                            = RowHash(weight_comp[1], weight_comp[2][r])
            /\ \A e \in emitted :
                 ImageRow(e) # Canonical(ImageRow(e), slice_list)
                   => e.hash = RowHash(weight_comp[1], Canonical(ImageRow(e), slice_list))

\* The dominant weights associated with the dot-regular weights of the
\* module: the weights cohomology(i) hands to cohomology_component.
AssociatedDominants == {t[2] : t \in regular_weights}

\* C30: for a dominant weight mu among the module's dot-regular weights and
\* every degree i, the value source_dim - rank(d_i) - rank(d_(i-1)) that
\* cohomology_component returns is not negative.
C30_CohomologyNonNegative ==
    (dpc = "cohomology" /\ cur_mu \in AssociatedDominants) => cohom >= 0

====
